---- MODULE Spec2Model ----
(***************************************************************************)
(* Model of the chat endpoint of the dJetLawyer chatbot backend:           *)
(*   - the anonymous session store (Redis counter and message lists),      *)
(*   - the durable store (chats, messages, attachments, token usage),      *)
(*   - the chat handler: anonymous rate limit, chat session resolution,    *)
(*     history budgeting, attachment processing, answer generation and     *)
(*     persistence.                                                        *)
(* Every worker handles one request at a time; a step of a worker is one   *)
(* store operation (or one call to an external service) together with the  *)
(* local computation around it, so that requests of different workers      *)
(* interleave exactly where the handler awaits or commits.                 *)
(*                                                                         *)
(* Texts are sequences of symbols.  The tokenizer (tiktoken) is modelled   *)
(* as additive over symbols: an ordinary symbol is one token, the symbol   *)
(* "#" stands for a passage that encodes to BulkTokens tokens.             *)
(* An Optional[List] is <<>> for None and <<list>> for a list.             *)
(***************************************************************************)
EXTENDS Integers, Sequences, FiniteSets, TLC

VARIABLES
    counter,      \* Redis anonymous:count:{session}   (0 when the key is absent)
    anon_chats,   \* Redis anonymous:chat:{session}:{chat_id} -> list of dicts
    chats,        \* table chats: set of rows
    messages,     \* table messages: rows in insertion order
    attachments,  \* table attachments: id -> row
    token_usage,  \* table token_usage: rows in insertion order
    files,        \* ids of the attachments whose file is in the upload directory
    now,          \* the clock read by the created_at defaults
    next_uuid,    \* how many chat ids uuid4() has minted
    reqs,         \* worker -> the request it is handling (pc and locals)
    started,      \* number of requests received so far
    arrivals,     \* session -> number of anonymous chat requests received
    api,          \* the response of the last call of a sharing or auth endpoint
    users,        \* table users: email -> the row made by /register
    ttl,          \* Redis: the hour at which each anonymous key expires
    subs          \* tables users (subscription columns) and subscription_history

vars == <<counter, anon_chats, chats, messages, attachments, token_usage, files,
          now, next_uuid, reqs, started, arrivals, api, users, ttl, subs>>

stores == <<counter, anon_chats, chats, messages, attachments, token_usage, files>>

----------------------------------------------------------------------------
(* Bounds of the model *)

MaxReq == 2          \* requests received in the general specification
MaxAnonReq == 6      \* requests received in the sequential anonymous one
MaxRaceReq == 6      \* requests received in the concurrent anonymous one
MaxMigReq == 3       \* requests received in the migration specification
MaxAttReq == 2       \* requests received in the attachment specification
MaxLoopReq == 3      \* requests received in the event-loop specification
MaxUseReq == 2       \* requests received in the usage specification
MaxPhaseReq == 2     \* requests received in the phase specification
MaxDiskReq == 1      \* requests received in the upload-directory specification
MaxDiskUploads == 2  \* attachments uploaded in the upload-directory specification
MaxSignReq == 6      \* requests received in the sign-in specification
MaxAuthReq == 5      \* calls of /register and /verify-email in the sign-up specification
MaxClock == 30       \* the hour at which the clock of the sign-up specification stops
MaxTtlReq == 6       \* requests received in the expiry specification
MaxTitleReq == 2     \* requests received in the migration-title specification
MaxFrameReq == 2     \* requests received in the frame specification
MaxGuardReq == 3     \* requests received in the ownership specification
MaxPairReq == 3      \* requests received in the concurrent-continuation specification
MaxShareReq == 4     \* requests received in the sharing specification
MaxUploads == 1      \* attachments uploaded
MaxHist == 3         \* length of the histories given to prepare_chat_history
BulkTokens == 750    \* tokens of the passage the symbol "#" stands for

(* Program constants *)

AnonLimit == 5       \* message_count >= 5
TokenCutoff == 1500  \* total_tokens > 1500
TitleCut == 30       \* [:30]

----------------------------------------------------------------------------
(* Values *)

None == "None"
Workers == {"w1", "w2"}
Users == {"u1", "u2"}
Sessions == {"s1"}
Emails == {"e1", "e2"}
TokenPool == <<"t1", "t2", "t3">>
InvalidToken == "invalid_token"
VerificationHours == 24     \* timedelta(hours=24)
AnonKeyHours == 24          \* EXPIRE key 86400
NoExpiry == -1              \* what TTL answers for a key without expiry

(* models/user.py: the columns of a users row that sign-up writes, and      *)
(* mailed, the token that send_verification_email was given                 *)
NoUser ==
    [email |-> None, is_verified |-> FALSE, verification_token |-> None,
     verification_token_expiry |-> None, mailed |-> None]
(* models/user.py 28-32: the subscription columns of a users row, with   *)
(* their defaults, and the two columns that migration 7bdc9f61f419 added to *)
(* the table                                                                *)
NoDate == -1                \* a DateTime column that is NULL
PeriodDays == 30            \* timedelta(days=30)
PaymentRefs == {"p1", "p2"}
Reason == "r"
MappedColumns ==
    {"subscription_plan", "subscription_start_date", "subscription_expiry_date",
     "subscription_auto_renew", "payment_reference"}
NoSubscription ==
    [subscription_plan |-> "free", subscription_start_date |-> NoDate,
     subscription_expiry_date |-> NoDate, subscription_auto_renew |-> TRUE,
     payment_reference |-> None, cancellation_date |-> NoDate,
     cancellation_reason |-> None]
NoSubCall ==
    [op |-> "", seq |-> 0, status |-> 0, user |-> None, event |-> None, gateway |-> None,
     reason |-> None, result |-> NoSubscription]
NoSubscriptions ==
    [rows |-> [u \in Users |-> NoSubscription], history |-> {}, last |-> NoSubCall]
IdPool == <<"c1", "c2", "c3", "c4", "c5", "c6", "c7", "c8", "c9">>
UnknownId == "cX"        \* a well-formed id no uuid4() call ever returns
BadId == "bad"           \* a chat id uuid.UUID() rejects
ChatIds == {IdPool[i] : i \in 1..Len(IdPool)} \cup {UnknownId}
AttPool == <<"a1", "a2", "a3">>
UnknownAtt == "aX"       \* an attachment id with no row
NoMessage == 0           \* attachments.message_id IS NULL

Ellipsis == <<".", ".", ".">>
SummaryPrefix == <<"S", ":">>          \* "Chat history summary: "
AttachmentHeader == <<"A", ":">>       \* "\n\nAttachment summaries:\n"
Newline == <<"/">>                     \* "\n"
TransferTitle == <<"X", "f", "e", "r">> \* "Transferred from anonymous chat"
SharedTitle == <<"C", "o", "n", "t">>   \* "Continued from shared chat"
LimitText == <<"L", "i", "m">>  \* "Message limit reached. Please login to continue."

Hello == <<"h", "i">>
LongBrief == <<"#", "#", "#">>      \* a message of three bulky passages
LongText == [i \in 1..(TitleCut + 2) |-> IF i = 1 THEN "q" ELSE "w"]
Answers == {<<"o", "k">>}
Titles == {<<"T">>}
Summaries == {<<"s", "u", "m">>}

Min(a, b) == IF a < b THEN a ELSE b

RECURSIVE SeqSum(_)
SeqSum(s) == IF s = <<>> THEN 0 ELSE Head(s) + SeqSum(Tail(s))

RECURSIVE Flatten(_)
Flatten(ss) == IF ss = <<>> THEN <<>> ELSE Head(ss) \o Flatten(Tail(ss))

Range(s) == {s[i] : i \in 1..Len(s)}

(* text[:n] *)
Take(text, n) == SubSeq(text, 1, Min(n, Len(text)))

(* sep.join(texts) *)
RECURSIVE Join(_, _)
Join(sep, texts) ==
    IF texts = <<>> THEN <<>>
    ELSE IF Len(texts) = 1 THEN Head(texts)
    ELSE Head(texts) \o sep \o Join(sep, Tail(texts))

----------------------------------------------------------------------------
(* Token Budgeter *)

TokenWeight(sym) == IF sym = "#" THEN BulkTokens ELSE 1

(* count_tokens: len(enc.encode(text)) *)
count_tokens(text) == SeqSum([i \in 1..Len(text) |-> TokenWeight(text[i])])

(* msg['content'] if isinstance(msg, dict) else msg.content *)
MsgContent(msg) == IF msg.shape = "dict" THEN msg.content ELSE msg.content
MsgRole(msg) == IF msg.shape = "dict" THEN msg.role ELSE msg.role

(* sum(count_tokens(content) for msg in messages) *)
sum_tokens(msgs) == SeqSum([i \in 1..Len(msgs) |-> count_tokens(MsgContent(msgs[i]))])

(* the langchain message a history entry becomes *)
LcKindMut(msg) ==
    IF MsgRole(msg) = "human" THEN "HumanMessage" ELSE "AIMessage"

LcKind(msg) ==
    IF MsgRole(msg) = "human" THEN "HumanMessage"
    ELSE IF MsgRole(msg) = "assistant" THEN "AIMessage"
    ELSE "SystemMessage"

LcMessage(kind, content) == [shape |-> "lc", kind |-> kind, content |-> content]

NeedsSummaryMut(msgs) == sum_tokens(msgs) >= TokenCutoff

(* total_tokens > 1500 *)
NeedsSummary(msgs) == sum_tokens(msgs) > TokenCutoff

(* prepare_chat_history, the branch that keeps the history *)
ConvertHistory(msgs) ==
    [i \in 1..Len(msgs) |-> LcMessage(LcKind(msgs[i]), MsgContent(msgs[i]))]

(* prepare_chat_history, the branch that summarizes: one synthetic message *)
SummaryHistory(summary) == <<LcMessage("HumanMessage", SummaryPrefix \o summary)>>

(* summarize_chat_history: the transcript handed to the summary chain *)
FormatHistory(msgs) ==
    Join(Newline, [i \in 1..Len(msgs) |-> <<MsgRole(msgs[i]), ":">> \o MsgContent(msgs[i])])

----------------------------------------------------------------------------
(* Durable store: services/chat.py over models/chat.py *)

(* no sharing endpoint has been called yet *)
NoCall == [op |-> "", seq |-> 0, status |-> 0, user |-> None, session |-> None,
           arg |-> None, chat |-> None]

(* the answer of the seq-th call of a sharing endpoint: its status and, on  *)
(* 200, the id of the chat in the body                                      *)
Answer(op, seq, status, user, session, arg, chat) ==
    [op |-> op, seq |-> seq, status |-> status, user |-> user, session |-> session,
     arg |-> arg, chat |-> chat]

(* a row of chats; is_shared is false until a sharing endpoint sets it *)
ChatRow(id, user_id, title) ==
    [id |-> id, user_id |-> user_id, title |-> title, is_shared |-> FALSE]

ChatExistsMutNever(id) == FALSE

(* the primary key of chats: a second row with the same id is refused *)
ChatExists(id) == \E c \in chats : c.id = id

(* the None a query returns when no row matches *)
NoChat == [id |-> None, user_id |-> None, title |-> <<>>, is_shared |-> FALSE]

(* get_chat: the row with that id, or None *)
get_chat(id) == IF ChatExists(id) THEN CHOOSE c \in chats : c.id = id ELSE NoChat

NotOwnMutInverted(chat, user) == chat = NoChat \/ chat.user_id = user

NotOwnMutOnlyMissing(chat, user) == chat = NoChat

(* not chat or chat.user_id != current_user.id *)
NotOwn(chat, user) == chat = NoChat \/ chat.user_id # user

MessageRowMutNoSources(chat_id, role, content, sources) ==
    [shape |-> "orm", id |-> Len(messages) + 1, chat_id |-> chat_id, role |-> role,
     content |-> content, sources |-> <<>>, created_at |-> now]

MessageRow(chat_id, role, content, sources) ==
    [shape |-> "orm", id |-> Len(messages) + 1, chat_id |-> chat_id, role |-> role,
     content |-> content, sources |-> sources, created_at |-> now]

(* add_message: one INSERT and commit; created_at is the clock at the insert *)
add_message(chat_id, role, content, sources) ==
    /\ messages' = Append(messages, MessageRow(chat_id, role, content, sources))
    /\ now' = now + 1

(* ORDER BY created_at: insertion into a list kept sorted by created_at *)
RECURSIVE InsertByCreatedAt(_, _)
InsertByCreatedAt(row, sorted) ==
    IF sorted = <<>> THEN <<row>>
    ELSE IF row.created_at < Head(sorted).created_at THEN <<row>> \o sorted
    ELSE <<Head(sorted)>> \o InsertByCreatedAt(row, Tail(sorted))

RECURSIVE OrderByCreatedAt(_)
OrderByCreatedAt(rows) ==
    IF rows = <<>> THEN <<>>
    ELSE InsertByCreatedAt(rows[Len(rows)], OrderByCreatedAt(SubSeq(rows, 1, Len(rows) - 1)))

(* get_chat_messages: filter(chat_id).order_by(created_at) *)
get_chat_messages(chat_id) ==
    OrderByCreatedAt(SelectSeq(messages, LAMBDA m : m.chat_id = chat_id))

(* chat.messages, the relationship of models/chat.py: the rows of the chat  *)
(* as a SELECT without ORDER BY returns them, in an order the database      *)
(* chooses                                                                  *)
chat_messages(chat_id) ==
    LET rows == SelectSeq(messages, LAMBDA m : m.chat_id = chat_id)
    IN  {[i \in 1..Len(rows) |-> rows[p[i]]] : p \in Permutations(1..Len(rows))}

(* uuid.uuid4(): an id never seen before *)
uuid4 == IdPool[next_uuid + 1]

MintedIds == {IdPool[i] : i \in 1..next_uuid}

----------------------------------------------------------------------------
(* Ephemeral store: services/anonymous_chat.py *)

(* get_anonymous_message_count *)
get_anonymous_message_count(session) == counter[session]

increment_anonymous_message_countMutTwice(session) ==
    /\ counter' = [counter EXCEPT ![session] = @ + 2]
    /\ ttl' = [ttl EXCEPT !.count[session] = now + AnonKeyHours]

(* increment_anonymous_message_count: INCR, then EXPIRE key 86400 *)
increment_anonymous_message_count(session) ==
    /\ counter' = [counter EXCEPT ![session] = @ + 1]
    /\ ttl' = [ttl EXCEPT !.count[session] = now + AnonKeyHours]

(* a read that loses the oldest stored message *)
get_anonymous_chat_messagesMutDropsOldest(session, chat_id) ==
    IF anon_chats[<<session, chat_id>>] = <<>> THEN <<>>
    ELSE Tail(anon_chats[<<session, chat_id>>])

get_anonymous_chat_messagesMutEmpty(session, chat_id) == <<>>

(* get_anonymous_chat_messages: [] when the key is absent *)
get_anonymous_chat_messages(session, chat_id) == anon_chats[<<session, chat_id>>]

(* SET without EXPIRE: the key is left with no expiry *)
save_anonymous_chat_messagesMutNoExpire(session, chat_id, msgs) ==
    /\ anon_chats' = [anon_chats EXCEPT ![<<session, chat_id>>] = msgs]
    /\ ttl' = [ttl EXCEPT !.chat[<<session, chat_id>>] = NoExpiry]

(* save_anonymous_chat_messages: SET, then EXPIRE key 86400 *)
save_anonymous_chat_messages(session, chat_id, msgs) ==
    /\ anon_chats' = [anon_chats EXCEPT ![<<session, chat_id>>] = msgs]
    /\ ttl' = [ttl EXCEPT !.chat[<<session, chat_id>>] = now + AnonKeyHours]

(* the dicts the handler builds *)
DictMessage(chat_id, role, content, sources, atts) ==
    [shape |-> "dict", chat_id |-> chat_id, role |-> role, content |-> content,
     sources |-> sources, attachments |-> atts]

----------------------------------------------------------------------------
(* Attachment Processor: services/chat_processing.py *)

FileTypes == {"text/plain", "image/png", "audio/wav"}
FileName == <<"f">>
DocText == <<"d", "o", "c">>
SummaryText == <<"g", "s", "t">>
ErrorText == <<"[", "E", "]">>       \* "[Error extracting text from document]"

AttachmentRow(id, file_type) ==
    [id |-> id, message_id |-> NoMessage, file_name |-> FileName,
     file_type |-> file_type, file_path |-> <<id>>]

(* file_type.startswith('image/'), file_type.startswith('audio/'), else document *)
AttachmentKind(file_type) ==
    IF file_type = "image/png" THEN "image"
    ELSE IF file_type = "audio/wav" THEN "audio"
    ELSE "document"

(* what the services called for one attachment yield: the text extracted    *)
(* from a document (possibly empty) and whether the summary call succeeds   *)
AttachOutcomes == [text : {DocText, <<>>}, summary_ok : BOOLEAN]

(* the content block of one attachment *)
ContentOf(att, out) ==
    IF AttachmentKind(att.file_type) = "image"
        THEN [type |-> "image_url", file_type |-> att.file_type, data |-> att.file_path]
    ELSE IF AttachmentKind(att.file_type) = "audio"
        THEN [type |-> "media", file_type |-> att.file_type, data |-> att.file_path]
    ELSE [type |-> "text", file_type |-> att.file_type,
          data |-> <<"'">> \o att.file_name \o <<"'", ":">> \o out.text]

(* generate_attachment_summary: the summary, or the placeholder of its kind *)
generate_attachment_summary(kind, file_name, ok) ==
    IF ok THEN SummaryText
    ELSE IF kind = "document" THEN <<"D", "'">> \o file_name \o <<"'", "?">>
    ELSE IF kind = "image" THEN <<"I", "'">> \o file_name \o <<"'", "?">>
    ELSE <<"U", "'">> \o file_name \o <<"'", "?">>

(* the loop of process_attachments over the references ids[1..n], with the  *)
(* state acc = (attachments_for_message, attachment_content_map)            *)
RECURSIVE AttachLoop(_, _, _)
AttachLoop(ids, outs, table) ==
    IF ids = <<>> THEN [for_message |-> <<>>, content_map |-> <<>>, raised |-> FALSE]
    ELSE LET rest == AttachLoop(Tail(ids), Tail(outs), table)
             id == Head(ids)
         IN  IF id \notin DOMAIN table
                 THEN rest       \* Attachment not found: continue
             ELSE LET att == table[id]
                      kind == AttachmentKind(att.file_type)
                      \* open() of a lost file raises: extract_text_from_document
                      \* catches it and returns its error text
                      out == IF kind = "document" /\ id \notin files
                                 THEN [Head(outs) EXCEPT !.text = ErrorText]
                                 ELSE Head(outs)
                      mapped == IF kind = "document" /\ out.text = <<>>
                                    THEN <<>>      \* if document_text: is false
                                    ELSE <<[kind |-> kind, file_name |-> att.file_name,
                                            content |-> ContentOf(att, out),
                                            summary_ok |-> out.summary_ok]>>
                  IN  [for_message |-> <<id>> \o rest.for_message,
                       content_map |-> mapped \o rest.content_map,
                       \* encode_file_to_base64 has no handler around open()
                       raised |-> (kind # "document" /\ id \notin files) \/ rest.raised]

(* text blocks first, then images, then audio: one human entry per kind *)
BlocksOfType(content_map, type) ==
    LET sel == SelectSeq(content_map, LAMBDA e : e.content.type = type)
    IN  IF sel = <<>> THEN <<>>
        ELSE <<[role |-> "human", blocks |-> [i \in 1..Len(sel) |-> sel[i].content]]>>

attachment_content(content_map) ==
    BlocksOfType(content_map, "text") \o BlocksOfType(content_map, "image_url")
        \o BlocksOfType(content_map, "media")

attachment_summaries(content_map) ==
    [i \in 1..Len(content_map) |->
        generate_attachment_summary(content_map[i].kind, content_map[i].file_name,
                                    content_map[i].summary_ok)]

----------------------------------------------------------------------------
(* Response Orchestrator: helpers *)

(* the context documents the retrieval chain returns: metadata with or      *)
(* without a source                                                          *)
TwoDocs == <<[source |-> <<"url1">>], [source |-> <<>>]>>
Contexts == {<<>>, TwoDocs}

SourcesOfMutDropUnknown(context) ==
    LET known == SelectSeq(context, LAMBDA d : d.source # <<>>)
    IN  [i \in 1..Len(known) |-> [url |-> known[i].source[1]]]

(* {"url": doc.metadata.get('source', 'Unknown')} for doc in result['context'] *)
SourcesOf(context) ==
    [i \in 1..Len(context) |->
        [url |-> IF context[i].source = <<>> THEN "Unknown" ELSE context[i].source[1]]]

----------------------------------------------------------------------------
(* The request a worker is handling *)

NoResponse == [status |-> 0, chat_id |-> None, answer |-> <<>>, sources |-> <<>>,
               limit_reached |-> FALSE, detail |-> ""]

NoLocalChat == [shape |-> "none", id |-> None]

IdleReq ==
    [pc |-> "idle",
     \* the request
     user |-> None, session |-> None, chat_id |-> None, request_message |-> <<>>,
     previous_messages |-> <<>>, attachments |-> <<>>,
     \* locals of chat()
     message_count |-> 0, chat |-> NoLocalChat, messages |-> <<>>,
     anon_messages |-> <<>>, replay |-> <<>>, i |-> 0, chat_title |-> <<>>,
     \* locals of process_chat()
     message |-> <<>>, chat_history |-> <<>>, attachment_content |-> <<>>,
     attachment_summaries |-> <<>>, attachments_for_message |-> <<>>,
     result |-> [answer |-> <<>>, context |-> <<>>], sources |-> <<>>,
     human_message |-> NoMessage,
     response |-> NoResponse,
     \* bookkeeping of the model, never read by the handler
     seq_no |-> 0, arrived_count |-> 0, case |-> "", failed_at |-> "",
     calls |-> <<>>, writes |-> {}, created |-> {}, phases |-> <<>>]

(* chat(): except Exception as e: raise HTTPException(status_code=500, ...)  *)
(* HTTPException is an Exception, so the 400 and the 404 raised inside the   *)
(* try block are caught as well and leave as 500                             *)
ExceptClause(status, detail) == [NoResponse EXCEPT !.status = 500, !.detail = detail]

RaiseInTry(r, status, detail, at) ==
    [r EXCEPT !.pc = "done", !.response = ExceptClause(status, detail), !.failed_at = at]

LimitResponseMut ==
    [status |-> 429, chat_id |-> None, answer |-> LimitText, sources |-> <<>>,
     limit_reached |-> TRUE, detail |-> "limit"]

(* ChatResponse(chat_id="limit_reached", ..., sources=[], limit_reached=True) *)
LimitResponse ==
    [status |-> 200, chat_id |-> "limit_reached", answer |-> LimitText, sources |-> <<>>,
     limit_reached |-> TRUE, detail |-> ""]

(* ChatResponse(chat_id=str(get_chat_id(chat)), answer=..., sources=sources) *)
ChatResponse(r) ==
    [status |-> 200, chat_id |-> r.chat.id, answer |-> r.result.answer,
     sources |-> r.sources, limit_reached |-> FALSE, detail |-> ""]

Set(w, r) == reqs' = [reqs EXCEPT ![w] = r]

At(w, pc) == reqs[w].pc = pc

----------------------------------------------------------------------------
(* POST /chatbot/chat: api/chatbot.py chat(), with the resolver of            *)
(* services/chat_management.py and the orchestrator of                        *)
(* services/chat_processing.py                                                *)

Failed == <<"!">>     \* the outcome of an external call that raises

StartChatMutCountsEveryone(w, u, s, c, m, p, a) ==
    /\ At(w, "idle")
    /\ LET r == [IdleReq EXCEPT !.user = u, !.session = s, !.chat_id = c,
                     !.request_message = m, !.message = m, !.previous_messages = p,
                     !.attachments = a,
                     !.seq_no = IF u = None /\ s # None THEN arrivals[s] + 1 ELSE 0,
                     !.arrived_count = IF s # None THEN counter[s] ELSE 0,
                     !.phases = <<"RESOLVING">>]
       IN  IF s = None
               THEN IF u = None
                        THEN Set(w, RaiseInTry(r, 400, "Anonymous session ID required", "http400"))
                        ELSE Set(w, [r EXCEPT !.pc = "resolve"])
               ELSE Set(w, [r EXCEPT !.pc = "get_count"])
    /\ started' = started + 1
    /\ arrivals' = IF u = None /\ s # None
                       THEN [arrivals EXCEPT ![s] = @ + 1] ELSE arrivals
    /\ UNCHANGED <<stores, now, next_uuid, api, users, ttl, subs>>

(* chat(), lines 82-92: the request arrives; an anonymous actor needs the    *)
(* x-anonymous-session-id header                                              *)
StartChat(w, u, s, c, m, p, a) ==
    /\ At(w, "idle")
    /\ LET r == [IdleReq EXCEPT !.user = u, !.session = s, !.chat_id = c,
                     !.request_message = m, !.message = m, !.previous_messages = p,
                     !.attachments = a,
                     !.seq_no = IF u = None /\ s # None THEN arrivals[s] + 1 ELSE 0,
                     !.arrived_count = IF s # None THEN counter[s] ELSE 0,
                     !.phases = <<"RESOLVING">>]
       IN  IF u = None
               THEN IF s = None
                        THEN Set(w, RaiseInTry(r, 400, "Anonymous session ID required", "http400"))
                        ELSE Set(w, [r EXCEPT !.pc = "get_count"])
               ELSE Set(w, [r EXCEPT !.pc = "resolve"])
    /\ started' = started + 1
    /\ arrivals' = IF u = None /\ s # None
                       THEN [arrivals EXCEPT ![s] = @ + 1] ELSE arrivals
    /\ UNCHANGED <<stores, now, next_uuid, api, users, ttl, subs>>

(* validate_anonymous_user, line 39: await get_anonymous_message_count *)
GetCount(w) ==
    /\ At(w, "get_count")
    /\ Set(w, [reqs[w] EXCEPT !.pc = "check_limit",
                   !.message_count = get_anonymous_message_count(reqs[w].session)])
    /\ UNCHANGED <<stores, now, next_uuid, started, arrivals, api, users, ttl, subs>>

AtCeilingMut(count) == count > AnonLimit

(* if message_count >= 5 *)
AtCeiling(count) == count >= AnonLimit

(* validate_anonymous_user, lines 40-51: the ceiling, else INCR *)
CheckLimit(w) ==
    /\ At(w, "check_limit")
    /\ LET r == reqs[w]
       IN  IF AtCeiling(r.message_count)
               THEN /\ Set(w, [r EXCEPT !.pc = "done", !.response = LimitResponse,
                                   !.case = "limit"])
                    /\ UNCHANGED <<counter, ttl>>
               ELSE /\ increment_anonymous_message_count(r.session)
                    /\ Set(w, [r EXCEPT !.pc = "resolve", !.writes = @ \cup {"counter"}])
    /\ UNCHANGED <<anon_chats, chats, messages, attachments, files, token_usage, now,
                   next_uuid, started, arrivals, api, users, subs>>

MaterializeMutSuppliedId(prev, chat_id) ==
    [i \in 1..Len(prev) |->
        DictMessage(BadId, prev[i].role, prev[i].content, <<>>, <<>>)]

(* previous_messages materialized for an anonymous actor (create_new_chat) *)
Materialize(prev, chat_id) ==
    [i \in 1..Len(prev) |->
        DictMessage(chat_id, prev[i].role, prev[i].content, <<>>, <<>>)]

(* the messages replayed into a new durable chat *)
ReplayOfPrevious(prev) ==
    [i \in 1..Len(prev) |->
        [role |-> prev[i].role, content |-> prev[i].content, sources |-> <<>>]]

ReplayOfAnonymous(msgs) ==
    [i \in 1..Len(msgs) |->
        [role |-> msgs[i].role, content |-> msgs[i].content, sources |-> msgs[i].sources]]

SharedChatTitleMutWhole(prev) ==
    IF Len(prev) > 0 THEN prev[1].content \o Ellipsis ELSE SharedTitle

(* previous_messages[0].get('content', '')[:30] + "..." *)
SharedChatTitle(prev) ==
    IF Len(prev) > 0 THEN Take(prev[1].content, TitleCut) \o Ellipsis ELSE SharedTitle

(* "Transferred from anonymous chat", or the first message when it is human *)
TransferChatTitle(msgs) ==
    IF Len(msgs) > 0 /\ msgs[1].role = "human"
        THEN Take(msgs[1].content, TitleCut) \o Ellipsis
        ELSE TransferTitle

CreateChatMutOwner(id, user_id, title) == chats' = chats \cup {ChatRow(id, None, title)}

(* create_chat: INSERT and commit (the caller has checked the primary key) *)
create_chat(id, user_id, title) == chats' = chats \cup {ChatRow(id, user_id, title)}

(* the branch of the resolver a request takes *)
CaseOf(r) ==
    IF r.chat_id = None THEN (IF r.user # None THEN "new_auth" ELSE "new_anon")
    ELSE IF r.chat_id = BadId THEN
        (IF r.user # None
            THEN (IF r.previous_messages # <<>> THEN "shared_auth" ELSE "new_auth")
            ELSE "shared_anon")
    ELSE IF r.user # None /\ r.session # None THEN "transfer"
    ELSE IF r.user # None THEN "owned"
    ELSE "anon"

(* chat(), lines 115-232 up to the first call that can block or fail later *)
Resolve(w) ==
    /\ At(w, "resolve")
    /\ LET r == [reqs[w] EXCEPT !.case = CaseOf(reqs[w])]
           own == get_chat(r.chat_id)
           stored == get_anonymous_chat_messages(r.session, r.chat_id)
           virtual == [shape |-> "dict", id |-> uuid4]
           budget == [r EXCEPT !.pc = "budget", !.phases = Append(@, "BUDGETING")]
       IN  CASE r.case = "new_auth" ->
                 \* title_chain.invoke is next
                 /\ Set(w, [r EXCEPT !.pc = "title"])
                 /\ UNCHANGED <<chats, next_uuid>>
             [] r.case = "new_anon" ->
                 /\ Set(w, [budget EXCEPT !.chat = virtual, !.messages = <<>>])
                 /\ next_uuid' = next_uuid + 1
                 /\ UNCHANGED chats
             [] r.case = "shared_auth" ->
                 /\ create_chat(uuid4, r.user, SharedChatTitle(r.previous_messages))
                 /\ next_uuid' = next_uuid + 1
                 /\ Set(w, [r EXCEPT !.pc = "replay",
                                !.chat_title = SharedChatTitle(r.previous_messages),
                                !.chat = [shape |-> "orm", id |-> uuid4],
                                !.replay = ReplayOfPrevious(r.previous_messages),
                                !.i = 1, !.writes = @ \cup {"chat"},
                                !.created = @ \cup {uuid4}])
             [] r.case = "shared_anon" ->
                 /\ Set(w, [budget EXCEPT !.chat = virtual,
                                !.messages = Materialize(r.previous_messages, uuid4)])
                 /\ next_uuid' = next_uuid + 1
                 /\ UNCHANGED chats
             [] r.case = "transfer" ->
                 /\ IF NotOwn(own, r.user)
                        THEN Set(w, [r EXCEPT !.pc = "anon_lookup"])
                        ELSE Set(w, [budget EXCEPT !.chat = [shape |-> "orm", id |-> own.id],
                                         !.messages = get_chat_messages(own.id)])
                 /\ UNCHANGED <<chats, next_uuid>>
             [] r.case = "owned" ->
                 /\ IF NotOwn(own, r.user)
                        THEN Set(w, RaiseInTry(r, 404, "Chat not found", "http404"))
                        ELSE Set(w, [budget EXCEPT !.chat = [shape |-> "orm", id |-> own.id],
                                         !.messages = get_chat_messages(own.id)])
                 /\ UNCHANGED <<chats, next_uuid>>
             [] OTHER ->    \* "anon"
                 /\ IF stored = <<>>
                        THEN /\ Set(w, [budget EXCEPT !.chat = virtual, !.messages = <<>>])
                             /\ next_uuid' = next_uuid + 1
                        ELSE /\ Set(w, [budget EXCEPT
                                         !.chat = [shape |-> "dict", id |-> r.chat_id],
                                         !.messages = stored])
                             /\ UNCHANGED next_uuid
                 /\ UNCHANGED chats
    /\ UNCHANGED <<counter, anon_chats, messages, attachments, files, token_usage, now,
                   started, arrivals, api, users, ttl, subs>>

(* title_chain.invoke returns (or raises), then create_chat with a new id *)
Title(w) ==
    /\ At(w, "title")
    /\ \E t \in Titles \cup {Failed} :
        LET r == [reqs[w] EXCEPT
                     !.calls = Append(@, [svc |-> "title", arg |-> reqs[w].request_message])]
        IN  IF t = Failed
                THEN /\ Set(w, RaiseInTry(r, 500, "title", "title"))
                     /\ UNCHANGED <<chats, next_uuid>>
                ELSE /\ create_chat(uuid4, r.user, t)
                     /\ next_uuid' = next_uuid + 1
                     /\ Set(w, [r EXCEPT !.pc = "budget", !.chat_title = t,
                                    !.chat = [shape |-> "orm", id |-> uuid4],
                                    !.messages = <<>>, !.writes = @ \cup {"chat"},
                                    !.created = @ \cup {uuid4},
                                    !.phases = Append(@, "BUDGETING")])
    /\ UNCHANGED <<counter, anon_chats, messages, attachments, files, token_usage, now,
                   started, arrivals, api, users, ttl, subs>>

AnonLookupMutNotFound(w) ==
    /\ At(w, "anon_lookup")
    /\ Set(w, RaiseInTry(reqs[w], 404, "Chat not found", "http404"))
    /\ UNCHANGED <<stores, now, next_uuid, started, arrivals, api, users, ttl, subs>>

(* transfer_anonymous_chat, line 145: await get_anonymous_chat_messages *)
AnonLookup(w) ==
    /\ At(w, "anon_lookup")
    /\ LET r == reqs[w]
           found == get_anonymous_chat_messages(r.session, r.chat_id)
       IN  IF found # <<>>
               THEN Set(w, [r EXCEPT !.pc = "migrate", !.anon_messages = found,
                                !.chat_title = TransferChatTitle(found),
                                !.case = "migrate"])
               ELSE Set(w, [r EXCEPT !.pc = "title", !.case = "transfer_new"])
    /\ UNCHANGED <<stores, now, next_uuid, started, arrivals, api, users, ttl, subs>>

(* transfer_anonymous_chat, line 154: create_chat with the anonymous id; the *)
(* INSERT violates the primary key when a row with that id exists            *)
Migrate(w) ==
    /\ At(w, "migrate")
    /\ LET r == reqs[w]
       IN  IF ChatExists(r.chat_id)
               THEN /\ Set(w, RaiseInTry(r, 500, "IntegrityError", "integrity"))
                    /\ UNCHANGED chats
               ELSE /\ create_chat(r.chat_id, r.user, r.chat_title)
                    /\ Set(w, [r EXCEPT !.pc = "replay",
                                   !.chat = [shape |-> "orm", id |-> r.chat_id],
                                   !.replay = ReplayOfAnonymous(r.anon_messages),
                                   !.i = 1, !.writes = @ \cup {"chat"},
                                   !.created = @ \cup {r.chat_id}])
    /\ UNCHANGED <<counter, anon_chats, messages, attachments, files, token_usage, now,
                   next_uuid, started, arrivals, api, users, ttl, subs>>

(* one add_message of the replay loop *)
Replay(w) ==
    /\ At(w, "replay")
    /\ LET r == reqs[w]
           m == r.replay[r.i]
       IN  /\ add_message(r.chat.id, m.role, m.content, m.sources)
           /\ Set(w, [r EXCEPT !.i = @ + 1, !.writes = @ \cup {"message"},
                          !.pc = IF r.i = Len(r.replay) THEN "reload" ELSE "replay"])
    /\ UNCHANGED <<counter, anon_chats, chats, attachments, files, token_usage, next_uuid,
                   started, arrivals, api, users, ttl, subs>>

(* messages = get_chat_messages(db, chat.id) after the replay *)
Reload(w) ==
    /\ At(w, "reload")
    /\ Set(w, [reqs[w] EXCEPT !.pc = "budget",
                   !.messages = get_chat_messages(reqs[w].chat.id),
                   !.phases = Append(@, "BUDGETING")])
    /\ UNCHANGED <<stores, now, next_uuid, started, arrivals, api, users, ttl, subs>>

----------------------------------------------------------------------------
(* process_chat: services/chat_processing.py lines 300-432 *)

BudgetMutSkipAttachments(w) ==
    /\ At(w, "budget")
    /\ Set(w, [reqs[w] EXCEPT !.pc = "generate", !.phases = Append(@, "GENERATING"),
                   !.chat_history = ConvertHistory(reqs[w].messages)])
    /\ UNCHANGED <<stores, now, next_uuid, started, arrivals, api, users, ttl, subs>>

(* prepare_chat_history: the history as it is, or its summary when the call  *)
(* to the summary chain returns; the call may raise                           *)
Budget(w) ==
    /\ At(w, "budget")
    /\ LET r == reqs[w]
           next == [r EXCEPT !.pc = "attach", !.phases = Append(@, "ATTACHMENTS")]
       IN  IF NeedsSummary(r.messages)
               THEN \E sm \in Summaries \cup {Failed} :
                      LET call == [svc |-> "summarize", arg |-> FormatHistory(r.messages)]
                      IN  IF sm = Failed
                              THEN Set(w, RaiseInTry([r EXCEPT !.calls = Append(@, call)],
                                                     500, "summarize", "summarize"))
                              ELSE Set(w, [next EXCEPT !.calls = Append(@, call),
                                                !.chat_history = SummaryHistory(sm)])
               ELSE Set(w, [next EXCEPT !.chat_history = ConvertHistory(r.messages)])
    /\ UNCHANGED <<stores, now, next_uuid, started, arrivals, api, users, ttl, subs>>

(* process_attachments and the summaries appended to the message *)
Attach(w) ==
    /\ At(w, "attach")
    /\ LET r == reqs[w]
           next == [r EXCEPT !.pc = "generate", !.phases = Append(@, "GENERATING")]
       IN  IF r.attachments = <<>>
               THEN Set(w, next)
               ELSE \E outs \in [1..Len(r.attachments) -> AttachOutcomes] :
                      LET got == AttachLoop(r.attachments, outs, attachments)
                          sums == attachment_summaries(got.content_map)
                      IN  IF got.raised
                            THEN Set(w, RaiseInTry(r, 500, "attachment", "attach"))
                            ELSE
                          Set(w, [next EXCEPT
                                !.attachments_for_message = got.for_message,
                                !.attachment_content = attachment_content(got.content_map),
                                !.attachment_summaries = sums,
                                !.message = IF sums # <<>>
                                                THEN @ \o AttachmentHeader \o Join(Newline, sums)
                                                ELSE @])
    /\ UNCHANGED <<stores, now, next_uuid, started, arrivals, api, users, ttl, subs>>

GenerateMutAlwaysPersists(w, Ctx) ==
    /\ At(w, "generate")
    /\ \E ans \in Answers \cup {Failed}, ctx \in Ctx :
        LET r == [reqs[w] EXCEPT !.calls = Append(@, [svc |-> "answer", arg |-> reqs[w].message])]
        IN  IF ans = Failed
                THEN Set(w, RaiseInTry(r, 500, "generation", "generate"))
                ELSE Set(w, [r EXCEPT !.result = [answer |-> ans, context |-> ctx],
                                 !.sources = SourcesOf(ctx),
                                 !.pc = "persist_human",
                                 !.phases = Append(@, "PERSISTING")])
    /\ UNCHANGED <<stores, now, next_uuid, started, arrivals, api, users, ttl, subs>>

(* rag_chain.invoke returns {answer, context} with a context of Ctx, or raises *)
Generate(w, Ctx) ==
    /\ At(w, "generate")
    /\ \E ans \in Answers \cup {Failed}, ctx \in Ctx :
        LET r == [reqs[w] EXCEPT !.calls = Append(@, [svc |-> "answer", arg |-> reqs[w].message])]
        IN  IF ans = Failed
                THEN Set(w, RaiseInTry(r, 500, "generation", "generate"))
                ELSE Set(w, [r EXCEPT !.result = [answer |-> ans, context |-> ctx],
                                 !.sources = SourcesOf(ctx),
                                 !.pc = IF r.user # None THEN "persist_human" ELSE "save_anon",
                                 !.phases = Append(@, "PERSISTING")])
    /\ UNCHANGED <<stores, now, next_uuid, started, arrivals, api, users, ttl, subs>>

(* human_message = add_message(db, chat.id, MessageCreate(role="human", ...)) *)
PersistHuman(w) ==
    /\ At(w, "persist_human")
    /\ LET r == reqs[w]
       IN  /\ add_message(r.chat.id, "human", r.message, <<>>)
           /\ Set(w, [r EXCEPT !.pc = "persist_ai", !.human_message = Len(messages) + 1,
                          !.writes = @ \cup {"message"}])
    /\ UNCHANGED <<counter, anon_chats, chats, attachments, files, token_usage, next_uuid,
                   started, arrivals, api, users, ttl, subs>>

(* ai_message = add_message(db, chat.id, MessageCreate(role="assistant", ...)) *)
PersistAI(w) ==
    /\ At(w, "persist_ai")
    /\ LET r == reqs[w]
       IN  /\ add_message(r.chat.id, "assistant", r.result.answer, <<r.sources>>)
           /\ Set(w, [r EXCEPT !.pc = "link"])
    /\ UNCHANGED <<counter, anon_chats, chats, attachments, files, token_usage, next_uuid,
                   started, arrivals, api, users, ttl, subs>>

LinkMutSkip(ids, message_id) == attachments

(* for attachment in attachments_for_message: attachment.message_id = ... *)
LinkOf(ids, message_id) ==
    [a \in DOMAIN attachments |->
        IF a \in Range(ids) THEN [attachments[a] EXCEPT !.message_id = message_id]
        ELSE attachments[a]]

(* lines 374-377: the attachment rows get the human message's id; commit *)
Link(w) ==
    /\ At(w, "link")
    /\ LET r == reqs[w]
       IN  /\ attachments' = LinkOf(r.attachments_for_message, r.human_message)
           /\ Set(w, [r EXCEPT !.pc = "usage",
                          !.writes = IF r.attachments_for_message # <<>>
                                         THEN @ \cup {"attachment"} ELSE @])
    /\ UNCHANGED <<counter, anon_chats, chats, messages, token_usage, files, now,
                   next_uuid, started, arrivals, api, users, ttl, subs>>

tokens_usedMutNoHistory(r) == count_tokens(r.message) + count_tokens(r.result.answer)

(* tokens(message) + tokens(answer) + tokens(bounded history) *)
tokens_used(r) ==
    count_tokens(r.message) + count_tokens(r.result.answer) + sum_tokens(r.chat_history)

(* lines 379-385 and 432: the usage row, commit, the response *)
Usage(w) ==
    /\ At(w, "usage")
    /\ LET r == reqs[w]
       IN  /\ token_usage' = Append(token_usage,
                                    [user_id |-> r.user, tokens_used |-> tokens_used(r)])
           /\ Set(w, [r EXCEPT !.pc = "done", !.response = ChatResponse(r),
                          !.writes = @ \cup {"usage"}, !.phases = Append(@, "DONE")])
    /\ UNCHANGED <<counter, anon_chats, chats, messages, attachments, files, now, next_uuid,
                   started, arrivals, api, users, ttl, subs>>

(* attachments_data of the human dict, None when empty *)
AttachmentsData(ids) ==
    IF ids = <<>> THEN <<>>
    ELSE <<[i \in 1..Len(ids) |->
              [id |-> ids[i], file_name |-> attachments[ids[i]].file_name,
               file_type |-> attachments[ids[i]].file_type]]>>

NewMessagesMutOnlyAnswer(r) ==
    SelectSeq(r.messages, LAMBDA m : m.shape = "dict") \o
    << DictMessage(r.chat.id, "assistant", r.result.answer, <<r.sources>>, <<>>) >>

(* messages_as_dicts + [human dict, assistant dict] *)
NewMessages(r) ==
    SelectSeq(r.messages, LAMBDA m : m.shape = "dict") \o
    << DictMessage(r.chat.id, "human", r.message, <<>>,
                   AttachmentsData(r.attachments_for_message)),
       DictMessage(r.chat.id, "assistant", r.result.answer, <<r.sources>>, <<>>) >>

(* lines 386-432: await save_anonymous_chat_messages, the response *)
SaveAnon(w) ==
    /\ At(w, "save_anon")
    /\ LET r == reqs[w]
       IN  /\ save_anonymous_chat_messages(r.session, r.chat.id, NewMessages(r))
           /\ Set(w, [r EXCEPT !.pc = "done", !.response = ChatResponse(r),
                          !.writes = @ \cup {"anon_chat"}, !.phases = Append(@, "DONE")])
    /\ UNCHANGED <<counter, chats, messages, attachments, files, token_usage, now, next_uuid,
                   started, arrivals, api, users, subs>>

(* the response leaves; the worker is free for the next request *)
Finish(w) ==
    /\ At(w, "done")
    /\ Set(w, IdleReq)
    /\ UNCHANGED <<stores, now, next_uuid, started, arrivals, api, users, ttl, subs>>

(* every step of the handler after the arrival of the request *)
Handle(w, Ctx) ==
    \/ GetCount(w) \/ CheckLimit(w) \/ Resolve(w) \/ Title(w) \/ AnonLookup(w)
    \/ Migrate(w) \/ Replay(w) \/ Reload(w) \/ Budget(w) \/ Attach(w) \/ Generate(w, Ctx)
    \/ PersistHuman(w) \/ PersistAI(w) \/ Link(w) \/ Usage(w) \/ SaveAnon(w)
    \/ Finish(w)

(* the steps of the handler that a request without a current user, without  *)
(* previous_messages, can take: the branches under "if not current_user"    *)
AnonymousHandle(w, Ctx) ==
    \/ GetCount(w) \/ CheckLimit(w) \/ Resolve(w) \/ Budget(w) \/ Attach(w)
    \/ Generate(w, Ctx) \/ SaveAnon(w) \/ Finish(w)

(* the steps of the handler that a request of a signed-in user without a    *)
(* session header and without previous_messages can take                    *)
SignedInHandle(w, Ctx) ==
    \/ Resolve(w) \/ Title(w) \/ Budget(w) \/ Attach(w) \/ Generate(w, Ctx)
    \/ PersistHuman(w) \/ PersistAI(w) \/ Link(w) \/ Usage(w) \/ Finish(w)

----------------------------------------------------------------------------
(* POST /attachments/upload: api/attachments.py upload_file *)

Upload(file_type) ==
    /\ Cardinality(DOMAIN attachments) < Len(AttPool)
    /\ LET id == AttPool[Cardinality(DOMAIN attachments) + 1]
       IN  /\ attachments' = attachments @@ (id :> AttachmentRow(id, file_type))
           /\ files' = files \cup {id}       \* save_file
    /\ UNCHANGED <<counter, anon_chats, chats, messages, token_usage, now, next_uuid,
                   reqs, started, arrivals, api, users, ttl, subs>>

(* the upload directory loses the file of an attachment (the case that      *)
(* serve_file answers with "File not found"); the row stays                 *)
LoseFile(a) ==
    /\ a \in files
    /\ files' = files \ {a}
    /\ UNCHANGED <<counter, anon_chats, chats, messages, attachments, token_usage, now,
                   next_uuid, reqs, started, arrivals, api, users, ttl, subs>>

----------------------------------------------------------------------------
(* The chat API: api/chat.py *)

(* POST /chats: create_chat with the ChatCreate of the body, whose id is    *)
(* optional; the INSERT is refused when the id is taken                     *)
create_new_chat(u, id) ==
    /\ IF id = None
           THEN /\ create_chat(uuid4, u, Hello)
                /\ next_uuid' = next_uuid + 1
           ELSE /\ IF ChatExists(id) THEN UNCHANGED chats ELSE create_chat(id, u, Hello)
                /\ UNCHANGED next_uuid
    /\ started' = started + 1
    /\ UNCHANGED <<counter, anon_chats, messages, attachments, files, token_usage, now, reqs,
                   arrivals, api, users, ttl, subs>>

----------------------------------------------------------------------------
(* The state after start-up: empty stores, idle workers *)

InitStores ==
    /\ counter = [s \in Sessions |-> 0]
    /\ anon_chats = [k \in Sessions \X ChatIds |-> <<>>]
    /\ chats = {}
    /\ messages = <<>>
    /\ attachments = <<>>
    /\ files = {}
    /\ token_usage = <<>>
    /\ now = 1
    /\ next_uuid = 0
    /\ started = 0
    /\ arrivals = [s \in Sessions |-> 0]
    /\ api = NoCall
    /\ users = [e \in Emails |-> NoUser]
    /\ ttl = [count |-> [s \in Sessions |-> NoExpiry],
              chat |-> [k \in Sessions \X ChatIds |-> NoExpiry]]
    /\ subs = NoSubscriptions

(* POST /chats/{chat_id}/messages: 404 unless the chat is the caller's, else *)
(* add_message with the MessageCreate of the body; the endpoint is a plain  *)
(* def, which the server runs on a thread of its pool                       *)
create_message(u, chat_id, role, content) ==
    /\ IF NotOwn(get_chat(chat_id), u)
           THEN /\ api' = Answer("create_message", started + 1, 404, u, None, chat_id, None)
                /\ UNCHANGED <<messages, now>>
           ELSE /\ add_message(chat_id, role, content, <<>>)
                /\ api' = Answer("create_message", started + 1, 200, u, None, chat_id, chat_id)
    /\ started' = started + 1
    /\ UNCHANGED <<counter, anon_chats, chats, attachments, files, token_usage, next_uuid, reqs,
                   arrivals, users, ttl, subs>>

(* GET /chats/{chat_id}: 404 unless the chat is the caller's, else the chat *)
(* with its messages                                                        *)
read_chat(u, chat_id) ==
    /\ api' = IF NotOwn(get_chat(chat_id), u)
                  THEN Answer("read_chat", started + 1, 404, u, None, chat_id, None)
                  ELSE Answer("read_chat", started + 1, 200, u, None, chat_id,
                              get_chat(chat_id).id)
    /\ started' = started + 1
    /\ UNCHANGED <<stores, now, next_uuid, reqs, arrivals, users, ttl, subs>>

(* GET /chats/{chat_id}/messages: 404 unless the chat is the caller's, else *)
(* get_chat_messages of it                                                  *)
read_chat_messages(u, chat_id) ==
    /\ api' = IF NotOwn(get_chat(chat_id), u)
                  THEN Answer("read_chat_messages", started + 1, 404, u, None, chat_id, None)
                  ELSE Answer("read_chat_messages", started + 1, 200, u, None, chat_id,
                              get_chat(chat_id).id)
    /\ started' = started + 1
    /\ UNCHANGED <<stores, now, next_uuid, reqs, arrivals, users, ttl, subs>>

share_chatMutAnyUser(chat_id, user_id) ==
    IF ChatExists(chat_id) THEN get_chat(chat_id) ELSE NoChat

(* share_chat: the chat with that id that belongs to the user, or None *)
share_chat(chat_id, user_id) ==
    IF \E c \in chats : c.id = chat_id /\ c.user_id = user_id
        THEN CHOOSE c \in chats : c.id = chat_id /\ c.user_id = user_id
        ELSE NoChat

(* POST /chats/{chat_id}/share: share_chat sets chat.is_shared = True and   *)
(* commits, whatever the is_shared of the body; 404 when it returns None    *)
share_user_chat(u, chat_id) ==
    /\ LET chat == share_chat(chat_id, u)
       IN  IF chat = NoChat
               THEN /\ api' = Answer("share", started + 1, 404, u, None, chat_id, None)
                    /\ UNCHANGED chats
               ELSE /\ chats' = (chats \ {chat}) \cup {[chat EXCEPT !.is_shared = TRUE]}
                    /\ api' = Answer("share", started + 1, 200, u, None, chat_id, chat.id)
    /\ started' = started + 1
    /\ UNCHANGED <<counter, anon_chats, messages, attachments, files, token_usage, now,
                   next_uuid, reqs, arrivals, users, ttl, subs>>

get_shared_chatMutAnyChat(chat_id) == get_chat(chat_id)

(* get_shared_chat: filter(Chat.id == chat_id, Chat.is_shared == True).first() *)
get_shared_chat(chat_id) ==
    IF \E c \in chats : c.id = chat_id /\ c.is_shared
        THEN CHOOSE c \in chats : c.id = chat_id /\ c.is_shared
        ELSE NoChat

(* GET /shared/{chat_id}: the shared chat, or 404 *)
get_public_chat(chat_id) ==
    /\ LET chat == get_shared_chat(chat_id)
       IN  api' = IF chat = NoChat
                      THEN Answer("public", started + 1, 404, None, None, chat_id, None)
                      ELSE Answer("public", started + 1, 200, None, None, chat_id, chat.id)
    /\ started' = started + 1
    /\ UNCHANGED <<stores, now, next_uuid, reqs, arrivals, users, ttl, subs>>

(* secrets.token_urlsafe(32): a value no earlier call has returned *)
token_urlsafe == TokenPool[Cardinality({e \in Emails : users[e] # NoUser}) + 1]

(* create_user and create_verification_token: the new row, not verified,    *)
(* with the token and an expiry 24 hours ahead                              *)
create_verification_token(email) ==
    [email |-> email, is_verified |-> FALSE, verification_token |-> token_urlsafe,
     verification_token_expiry |-> now + VerificationHours, mailed |-> token_urlsafe]

(* POST /register: the rate limiter, create_user (400 when the email is     *)
(* taken), create_verification_token, and the mail with the token           *)
register(email, limited) ==
    /\ IF limited
           THEN /\ api' = Answer("register", started + 1, 429, email, None, None, None)
                /\ UNCHANGED users
       ELSE IF users[email] # NoUser
           THEN /\ api' = Answer("register", started + 1, 400, email, None, None, None)
                /\ UNCHANGED users
       ELSE /\ users' = [users EXCEPT ![email] = create_verification_token(email)]
            /\ api' = Answer("register", started + 1, 200, email, None, None, None)
    /\ started' = started + 1
    /\ UNCHANGED <<stores, now, next_uuid, reqs, arrivals, ttl, subs>>

verify_email_tokenMutNoExpiry(token) ==
    {e \in Emails : users[e] # NoUser /\ users[e].verification_token = token}

(* verify_email_token: filter(verification_token == token,                  *)
(* verification_token_expiry > utcnow()); a NULL column matches nothing     *)
verify_email_token(token) ==
    {e \in Emails : /\ users[e] # NoUser
                    /\ users[e].verification_token = token
                    /\ users[e].verification_token_expiry > now}

(* GET /verify-email: the rate limiter, then verify_email_token; the first  *)
(* matching user is marked verified and loses token and expiry; 400 when    *)
(* there is none                                                            *)
verify_email(token, limited) ==
    /\ IF limited
           THEN /\ api' = Answer("verify", started + 1, 429, None, None, token, None)
                /\ UNCHANGED users
       ELSE IF verify_email_token(token) = {}
           THEN /\ api' = Answer("verify", started + 1, 400, None, None, token, None)
                /\ UNCHANGED users
       ELSE LET e == CHOOSE e \in verify_email_token(token) : TRUE
            IN  /\ users' = [users EXCEPT ![e].is_verified = TRUE,
                                          ![e].verification_token = None,
                                          ![e].verification_token_expiry = None]
                /\ api' = Answer("verify", started + 1, 200, e, None, token, None)
    /\ started' = started + 1
    /\ UNCHANGED <<stores, now, next_uuid, reqs, arrivals, ttl, subs>>

(* hours pass in Redis: a key whose expiry has come is gone, so that its    *)
(* counter reads 0 and its list reads []                                    *)
Elapse(h) ==
    /\ now + h <= MaxClock
    /\ now' = now + h
    /\ counter' = [s \in Sessions |->
                      IF ttl.count[s] # NoExpiry /\ ttl.count[s] <= now' THEN 0
                      ELSE counter[s]]
    /\ anon_chats' = [k \in Sessions \X ChatIds |->
                      IF ttl.chat[k] # NoExpiry /\ ttl.chat[k] <= now' THEN <<>>
                      ELSE anon_chats[k]]
    /\ ttl' = [count |-> [s \in Sessions |->
                             IF ttl.count[s] <= now' THEN NoExpiry ELSE ttl.count[s]],
               chat |-> [k \in Sessions \X ChatIds |->
                             IF ttl.chat[k] <= now' THEN NoExpiry ELSE ttl.chat[k]]]
    /\ UNCHANGED <<chats, messages, attachments, files, token_usage, next_uuid, reqs,
                   started, arrivals, api, users, subs>>

(* hours pass *)
Pass(h) ==
    /\ now + h <= MaxClock
    /\ now' = now + h
    /\ UNCHANGED <<stores, next_uuid, reqs, started, arrivals, api, users, ttl, subs>>

(* the Redis GET of a key made of any two strings *)
StoredUnder(session, chat_id) ==
    IF <<session, chat_id>> \in DOMAIN anon_chats THEN anon_chats[<<session, chat_id>>]
    ELSE <<>>

save_anonymous_chat_to_dbMutNotShared(id, title, msgs) ==
    /\ chats' = chats \cup {ChatRow(id, None, title)}
    /\ messages' = messages \o
          [i \in 1..Len(msgs) |->
              [shape |-> "orm", id |-> Len(messages) + i, chat_id |-> id,
               role |-> msgs[i].role, content |-> msgs[i].content,
               sources |-> msgs[i].sources, created_at |-> now + i - 1]]
    /\ now' = now + Len(msgs)

(* save_anonymous_chat_to_db: Chat(title=title, is_shared=True), then one   *)
(* Message per dict with its role, content and sources                      *)
save_anonymous_chat_to_db(id, title, msgs) ==
    /\ chats' = chats \cup {[ChatRow(id, None, title) EXCEPT !.is_shared = TRUE]}
    /\ messages' = messages \o
          [i \in 1..Len(msgs) |->
              [shape |-> "orm", id |-> Len(messages) + i, chat_id |-> id,
               role |-> msgs[i].role, content |-> msgs[i].content,
               sources |-> msgs[i].sources, created_at |-> now + i - 1]]
    /\ now' = now + Len(msgs)

(* POST /share-anonymous-chat: 400 without session id or chat id, 404 when  *)
(* the ephemeral store holds no messages, else the chat is saved            *)
share_anonymous_chat(session_id, chat_id, title) ==
    /\ IF session_id = None \/ chat_id = None
           THEN /\ api' = Answer("share_anon", started + 1, 400, None, session_id, chat_id,
                                 None)
                /\ UNCHANGED <<chats, messages, now, next_uuid>>
       ELSE IF StoredUnder(session_id, chat_id) = <<>>
           THEN /\ api' = Answer("share_anon", started + 1, 404, None, session_id, chat_id,
                                 None)
                /\ UNCHANGED <<chats, messages, now, next_uuid>>
       ELSE /\ save_anonymous_chat_to_db(uuid4, title, StoredUnder(session_id, chat_id))
            /\ next_uuid' = next_uuid + 1
            /\ api' = Answer("share_anon", started + 1, 200, None, session_id, chat_id,
                             uuid4)
    /\ started' = started + 1
    /\ UNCHANGED <<counter, anon_chats, attachments, files, token_usage, reqs, arrivals, users, ttl, subs>>

Init ==
    /\ InitStores
    /\ reqs = [w \in Workers |-> IdleReq]

----------------------------------------------------------------------------
(* Specifications: the same handler under different request populations *)

SharedPrevious == << [role |-> "human", content |-> LongText],
                     [role |-> "assistant", content |-> Hello] >>

(* a request arrives at a free worker of W, its fields drawn from the sets *)
Arrive(W, U, S, C, M, P, A, max) ==
    /\ started < max
    /\ \E w \in W, u \in U, s \in S, c \in C, m \in M, p \in P, a \in A :
          StartChat(w, u, s, c, m, p, a)

(* the general population: every actor, every kind of chat id; requests are *)
(* handled one after another by one worker                                   *)
Next ==
    \/ Arrive({"w1"}, Users \cup {None}, Sessions \cup {None},
              {None, BadId, UnknownId} \cup MintedIds, {Hello},
              {<<>>, SharedPrevious}, {<<>>}, MaxReq)
    \/ Handle("w1", Contexts)

Spec == Init /\ [][Next]_vars

(* one anonymous session whose requests are handled one after another *)
NextAnon ==
    \/ Arrive({"w1"}, {None}, Sessions, {None} \cup MintedIds, {Hello}, {<<>>}, {<<>>},
              MaxAnonReq)
    \/ AnonymousHandle("w1", {TwoDocs})

SpecAnon == Init /\ [][NextAnon]_vars

(* one anonymous session whose requests are handled concurrently by the workers *)
NextRace ==
    \/ Arrive(Workers, {None}, Sessions, {None}, {Hello}, {<<>>}, {<<>>}, MaxRaceReq)
    \/ \E w \in Workers : AnonymousHandle(w, {TwoDocs})

SpecRace == Init /\ [][NextRace]_vars

(* anonymous turns, then users who sign in and continue them *)
NextMig ==
    \/ Arrive({"w1"}, Users \cup {None}, Sessions, {None} \cup MintedIds, {Hello},
              {<<>>}, {<<>>}, MaxMigReq)
    \/ Handle("w1", {TwoDocs})

SpecMig == Init /\ [][NextMig]_vars

(* the requests of SpecMig, and users who create chats with ids of their    *)
(* choice through the chat API between two chat turns                       *)
NextOwn ==
    \/ Arrive({"w1"}, Users \cup {None}, Sessions, {None} \cup MintedIds, {Hello},
              {<<>>}, {<<>>}, MaxMigReq)
    \/ Handle("w1", {TwoDocs})
    \/ /\ started < MaxMigReq
       /\ reqs["w1"].pc \in {"idle", "done"}
       /\ \E u \in Users, id \in {None, UnknownId} \cup MintedIds : create_new_chat(u, id)

SpecOwn == Init /\ [][NextOwn]_vars

(* the attachment references a client can send: uploaded ids and unknown ones *)
AttachmentRefs ==
    LET ids == DOMAIN attachments \cup {UnknownAtt}
    IN  {<<>>} \cup {<<a>> : a \in ids} \cup {<<a, b>> : a, b \in ids}

(* authenticated turns that reference uploaded attachments *)
NextAtt ==
    \/ Arrive({"w1"}, {"u1"}, {None}, {None} \cup MintedIds, {Hello}, {<<>>},
              AttachmentRefs, MaxAttReq)
    \/ SignedInHandle("w1", {TwoDocs})
    \/ /\ Cardinality(DOMAIN attachments) < MaxUploads
       /\ \E t \in FileTypes : Upload(t)

SpecAtt == Init /\ [][NextAtt]_vars

(* anonymous turns of one session, with every kind of chat id, with shared   *)
(* previous messages and with a reference to an uploaded document           *)
NextAnonAtt ==
    \/ Arrive({"w1"}, {None}, Sessions, {None, BadId, UnknownId} \cup MintedIds, {Hello},
              {<<>>, SharedPrevious}, {<<>>} \cup {<<a>> : a \in DOMAIN attachments},
              MaxAttReq)
    \/ AnonymousHandle("w1", {TwoDocs})
    \/ /\ Cardinality(DOMAIN attachments) < MaxUploads
       /\ Upload("text/plain")

SpecAnonAtt == Init /\ [][NextAnonAtt]_vars

(* turns of one user and of one anonymous session, with a reference to an   *)
(* uploaded document, handled one after another                             *)
NextUse ==
    \/ Arrive({"w1"}, {"u1", None}, Sessions, {None} \cup MintedIds, {Hello}, {<<>>},
              {<<>>} \cup {<<a>> : a \in DOMAIN attachments}, MaxUseReq)
    \/ Handle("w1", {TwoDocs})
    \/ /\ Cardinality(DOMAIN attachments) < MaxUploads
       /\ Upload("text/plain")

SpecUse == Init /\ [][NextUse]_vars

(* turns of one user and of one anonymous session, with well-formed chat   *)
(* ids, with short and with bulky messages and with a reference to an       *)
(* uploaded image, whose file may be lost before the first turn, handled   *)
(* one after another                                                        *)
NextPhase ==
    \/ Arrive({"w1"}, {"u1", None}, Sessions \cup {None}, {None, UnknownId} \cup MintedIds,
              {Hello, LongBrief}, {<<>>},
              {<<>>} \cup {<<a>> : a \in DOMAIN attachments}, MaxPhaseReq)
    \/ Handle("w1", {TwoDocs})
    \/ /\ Cardinality(DOMAIN attachments) < MaxUploads
       /\ Upload("image/png")
    \/ /\ reqs["w1"].pc = "idle" /\ started = 0
       /\ \E a \in files : LoseFile(a)

SpecPhase == Init /\ [][NextPhase]_vars

(* turns of one user that reference uploaded attachments of every kind,     *)
(* some of which have lost their file                                       *)
NextDisk ==
    \/ Arrive({"w1"}, {"u1"}, {None}, {None} \cup MintedIds, {Hello}, {<<>>},
              AttachmentRefs, MaxDiskReq)
    \/ SignedInHandle("w1", {TwoDocs})
    \/ /\ Cardinality(DOMAIN attachments) < MaxDiskUploads
       /\ \E t \in FileTypes : Upload(t)
    \/ /\ reqs["w1"].pc = "idle"
       /\ \E a \in files : LoseFile(a)

SpecDisk == Init /\ [][NextDisk]_vars

(* chat turns of the users and of an anonymous session, and calls of the    *)
(* sharing endpoints and of the public lookup between two turns             *)
NextShare ==
    \/ Arrive({"w1"}, Users \cup {None}, Sessions, {None} \cup MintedIds, {Hello}, {<<>>},
              {<<>>}, MaxShareReq)
    \/ Handle("w1", {TwoDocs})
    \/ /\ started < MaxShareReq
       /\ reqs["w1"].pc = "idle"
       /\ \/ \E u \in Users, id \in MintedIds \cup {UnknownId} : share_user_chat(u, id)
          \/ \E s \in Sessions \cup {None}, id \in MintedIds \cup {None, BadId} :
                share_anonymous_chat(s, id, Hello)
    \/ /\ started < MaxShareReq
       /\ reqs["w1"].pc = "idle"
       /\ \E id \in MintedIds \cup {UnknownId} : get_public_chat(id)

SpecShare == Init /\ [][NextShare]_vars

(* an anonymous session that uses up its quota, and a user who sends chat   *)
(* requests that carry the header of that session                           *)
NextSign ==
    \/ Arrive({"w1"}, {"u1", None}, Sessions, {None} \cup MintedIds, {Hello}, {<<>>},
              {<<>>}, MaxSignReq)
    \/ Handle("w1", {TwoDocs})

SpecSign == Init /\ [][NextSign]_vars

(* sign-up: registrations, verification links opened with any token, at     *)
(* any hour, some of them refused by the rate limiter                       *)
NextAuth ==
    \/ /\ started < MaxAuthReq
       /\ \E e \in Emails, limited \in BOOLEAN : register(e, limited)
    \/ /\ started < MaxAuthReq
       /\ \E i \in 1..Len(TokenPool), limited \in BOOLEAN : verify_email(TokenPool[i], limited)
    \/ /\ started < MaxAuthReq
       /\ \E limited \in BOOLEAN : verify_email(InvalidToken, limited)
    \/ \E h \in {1, VerificationHours - 1} : Pass(h)

SpecAuth == Init /\ [][NextAuth]_vars

(* one anonymous session whose requests are handled one after another,     *)
(* while the clock moves on in steps of 12 hours                            *)
NextTtl ==
    \/ Arrive({"w1"}, {None}, Sessions, {None} \cup MintedIds, {Hello}, {<<>>}, {<<>>},
              MaxTtlReq)
    \/ AnonymousHandle("w1", {TwoDocs})
    \/ \E h \in {AnonKeyHours \div 2} : Elapse(h)

SpecTtl == Init /\ [][NextTtl]_vars

(* previous_messages of a shared chat that opens with an assistant message *)
AnswerFirstPrevious == << [role |-> "assistant", content |-> Hello],
                          [role |-> "human", content |-> LongText] >>

(* the general population, and anonymous actors who continue a shared chat  *)
(* that opens with an assistant message and then sign in                    *)
NextTitle ==
    \/ Arrive({"w1"}, Users \cup {None}, Sessions \cup {None},
              {None, BadId, UnknownId} \cup MintedIds, {Hello},
              {<<>>, SharedPrevious, AnswerFirstPrevious}, {<<>>}, MaxTitleReq)
    \/ Handle("w1", Contexts)

SpecTitle == Init /\ [][NextTitle]_vars

(* turns of a user and of an anonymous session with every kind of chat id,  *)
(* with shared previous messages and with a reference to an uploaded        *)
(* document, handled one after another                                      *)
NextFrame ==
    \/ Arrive({"w1"}, {"u1", None}, Sessions, {None, BadId, UnknownId} \cup MintedIds,
              {Hello}, {<<>>, SharedPrevious},
              {<<>>} \cup {<<a>> : a \in DOMAIN attachments}, MaxFrameReq)
    \/ Handle("w1", {TwoDocs})
    \/ /\ Cardinality(DOMAIN attachments) < MaxUploads
       /\ Upload("text/plain")

SpecFrame == Init /\ [][NextFrame]_vars

(* chat turns of two users and of an anonymous session, with and without    *)
(* the session header, and the users' calls of the read and append          *)
(* endpoints of the chat API on any chat id                                 *)
NextGuard ==
    \/ Arrive({"w1"}, Users \cup {None}, Sessions \cup {None},
              {None, UnknownId} \cup MintedIds, {Hello}, {<<>>}, {<<>>}, MaxGuardReq)
    \/ Handle("w1", {TwoDocs})
    \/ /\ started < MaxGuardReq
       /\ reqs["w1"].pc = "idle"
       /\ \E u \in Users, id \in MintedIds \cup {UnknownId} :
             \/ create_message(u, id, "human", Hello)
             \/ read_chat(u, id)
             \/ read_chat_messages(u, id)

SpecGuard == Init /\ [][NextGuard]_vars

(* one anonymous session whose requests, with or without the id of one of   *)
(* its chats, are handled concurrently by the workers                       *)
NextPair ==
    \/ Arrive(Workers, {None}, Sessions, {None} \cup MintedIds, {Hello}, {<<>>}, {<<>>},
              MaxPairReq)
    \/ \E w \in Workers : AnonymousHandle(w, {TwoDocs})

SpecPair == Init /\ [][NextPair]_vars

(* uvicorn.run(app): one process, one event loop. A coroutine of the chat   *)
(* endpoint gives up the loop only at an await that really waits: the calls *)
(* of the ephemeral store and, with attachments, the text extraction and    *)
(* the summary; everything else, the inserts and commits included, runs     *)
(* without a break                                                          *)
Suspended(r) ==
    \/ r.pc \in {"idle", "done", "get_count", "check_limit", "anon_lookup", "save_anon"}
    \/ r.pc = "resolve" /\ r.user = None /\ r.chat_id \in ChatIds
    \/ r.pc = "attach" /\ r.attachments # <<>>

(* the loop can run worker w when every other coroutine waits *)
LoopFree(w) == \A v \in Workers \ {w} : Suspended(reqs[v])

(* chat turns of one user on one event loop, with attachments, and the      *)
(* user's calls of the message endpoint of the chat API, served by the      *)
(* thread pool at any moment                                                *)
NextLoop ==
    \/ \E w \in Workers :
          /\ LoopFree(w)
          /\ Arrive({w}, {"u1"}, {None}, {None} \cup MintedIds, {Hello}, {<<>>},
                    {<<>>} \cup {<<a>> : a \in DOMAIN attachments}, MaxLoopReq)
    \/ \E w \in Workers : LoopFree(w) /\ SignedInHandle(w, {TwoDocs})
    \/ /\ started < MaxLoopReq
       /\ \E c \in MintedIds : create_message("u1", c, "human", <<"x">>)
    \/ /\ Cardinality(DOMAIN attachments) < MaxUploads
       /\ Upload("text/plain")

SpecLoop == Init /\ [][NextLoop]_vars

(* prepare_chat_history as a function of the loaded history: the histories  *)
(* a chat can hold, of either representation, handed to the budgeting step  *)
HistoryMessages ==
    [shape : {"dict", "orm"}, role : {"human", "assistant", "system", ""},
     content : {<<>>, <<"x">>, <<"#">>}]

Histories == UNION {[1..n -> HistoryMessages] : n \in 0..MaxHist}

InitHist ==
    /\ InitStores
    /\ \E h \in Histories :
          reqs = [w \in Workers |->
                    IF w = "w1"
                        THEN [IdleReq EXCEPT !.pc = "budget", !.user = "u1",
                                  !.chat_id = UnknownId, !.request_message = Hello,
                                  !.message = Hello, !.messages = h]
                        ELSE IdleReq]

NextHist == Budget("w1")

SpecHist == InitHist /\ [][NextHist]_vars

----------------------------------------------------------------------------
(* Properties *)

Busy(w) == reqs[w].pc # "idle"

Anonymous(r) == r.user = None /\ r.session # None

(* the request has been decided by the rate limit: accepted or refused *)
Decided(r) == r.pc \notin {"idle", "get_count", "check_limit"}

(* C1: requests of an anonymous session handled one after another from      *)
(* counter 0: each of the first 5 is accepted and has raised the counter by *)
(* exactly 1 when resolution starts; every later one is answered            *)
(* limit_reached=true and leaves the counter at 5.                          *)
C1_SequentialCeiling ==
    \A w \in Workers :
        LET r == reqs[w]
        IN  (Busy(w) /\ Anonymous(r)) =>
              /\ ~Decided(r) => counter[r.session] = Min(r.seq_no - 1, AnonLimit)
              /\ (Decided(r) /\ r.seq_no <= AnonLimit) =>
                    /\ r.response.limit_reached = FALSE
                    /\ r.case # "limit"
                    /\ r.message_count = r.seq_no - 1
                    /\ counter[r.session] = r.message_count + 1
              /\ (Decided(r) /\ r.seq_no > AnonLimit) =>
                    /\ r.pc = "done"
                    /\ r.response.limit_reached = TRUE
                    /\ r.response.status = 200
                    /\ counter[r.session] = AnonLimit

C1_Witness ==
    \E w \in Workers :
        /\ reqs[w].pc = "done" /\ reqs[w].seq_no = AnonLimit + 1
        /\ reqs[w].response.limit_reached
        /\ counter[reqs[w].session] = AnonLimit

(* C2: under every interleaving of concurrent requests of one anonymous     *)
(* session the counter never exceeds 5 (at most 5 requests are accepted).    *)
C2_CounterNeverExceedsCeiling ==
    \A s \in Sessions : counter[s] <= AnonLimit

(* C3: a request whose answer generation or history summarization failed    *)
(* has written no chat, no message, no usage record and no ephemeral list:  *)
(* at most the anonymous counter.                                           *)
C3_NoPersistenceOnFailure ==
    \A w \in Workers :
        LET r == reqs[w]
        IN  r.failed_at \in {"generate", "summarize"} =>
              /\ r.writes \subseteq {"counter"}
              /\ \A id \in r.created : ~ChatExists(id)

(* role, content and sources of a stored message, whatever its shape *)
Essence(msgs) ==
    [i \in 1..Len(msgs) |->
        [role |-> msgs[i].role, content |-> msgs[i].content, sources |-> msgs[i].sources]]

(* C4: an authenticated actor with a well-formed chat id and a session      *)
(* header, who owns no durable chat with that id while the ephemeral store  *)
(* holds messages under (session, chat id): after resolution a durable chat *)
(* with that id exists, owned by the actor, whose messages in creation      *)
(* order equal the anonymous list in role, content and sources.             *)
C4_MigrationFidelity ==
    \A w \in Workers :
        LET r == reqs[w]
        IN  (r.case = "migrate" /\ r.pc \notin {"migrate", "replay", "reload"}) =>
              /\ get_chat(r.chat_id).user_id = r.user
              /\ r.pc = "budget" => Essence(r.messages) = Essence(r.anon_messages)

(* C5: an authenticated request with a well-formed chat id and no session   *)
(* header, whose chat is absent or owned by another user, ends in HTTP 404  *)
(* and changes no state.                                                    *)
C5_NotFoundIs404 ==
    \A w \in Workers :
        LET r == reqs[w]
        IN  (r.pc = "done" /\ r.case = "owned" /\ NotOwn(get_chat(r.chat_id), r.user)) =>
              /\ r.response.status = 404
              /\ r.writes = {}

(* C6: an anonymous request without a session identifier ends in HTTP 400   *)
(* before any side effect.                                                  *)
C6_MissingSessionIs400 ==
    \A w \in Workers :
        LET r == reqs[w]
        IN  (r.pc = "done" /\ r.user = None /\ r.session = None) =>
              /\ r.response.status = 400
              /\ r.writes = {}

(* C7: an anonymous request that finds its counter at or above 5 gets a     *)
(* success-shaped response with limit_reached=true and no sources, calls    *)
(* neither the title nor the answer service and writes nothing.             *)
C7_LimitIsSuccessShaped ==
    [][\A w \in Workers :
         (reqs[w].pc = "check_limit" /\ reqs[w].message_count >= AnonLimit
             /\ reqs'[w] # reqs[w]) =>
           /\ reqs'[w].pc = "done"
           /\ reqs'[w].response.status = 200
           /\ reqs'[w].response.limit_reached = TRUE
           /\ reqs'[w].response.sources = <<>>
           /\ reqs'[w].calls = <<>>
           /\ UNCHANGED <<stores, now, next_uuid>>]_vars

C7_Witness ==
    \E w \in Workers :
        /\ reqs[w].pc = "done" /\ reqs[w].case = "limit"
        /\ reqs[w].arrived_count >= AnonLimit
        /\ reqs[w].response.status = 200

(* the rows a step adds to the chats table *)
NewChats == {c \in chats' : c \notin chats}

(* C8: an authenticated request without a chat id creates exactly one new   *)
(* durable chat, owned by the actor and titled with what the title service  *)
(* returned for the request message, and hands an empty history on.         *)
C8_NewChatForAuthenticated ==
    [][\A w \in Workers :
         LET r == reqs[w]
             q == reqs'[w]
         IN  (r.user # None /\ r.chat_id = None /\ Busy(w) /\ q # r) =>
               IF r.pc = "title" /\ q.pc # "done"
                   THEN /\ Cardinality(NewChats) = 1
                        /\ \A c \in NewChats :
                              /\ ~ChatExists(c.id)
                              /\ c.user_id = r.user
                              /\ c.title = q.chat_title
                              /\ q.chat.id = c.id
                        /\ q.chat_title \in Titles
                        /\ q.calls = <<[svc |-> "title", arg |-> r.request_message]>>
                        /\ q.messages = <<>>
                        /\ q.pc = "budget"
                   ELSE /\ chats' = chats
                        /\ r.pc \in {"resolve", "title"} => q.pc \in {"title", "done"}]_vars

C8_Witness ==
    \E w \in Workers :
        /\ reqs[w].user # None /\ reqs[w].chat_id = None /\ reqs[w].pc = "done"
        /\ reqs[w].response.status = 200
        /\ \E c \in chats : c.id = reqs[w].response.chat_id /\ c.user_id = reqs[w].user

C10_AttachmentLinkedOnce ==
    [][/\ \A w \in Workers :
            (reqs[w].pc = "link" /\ reqs'[w].pc = "usage") =>
               \A a \in Range(reqs[w].attachments_for_message) :
                   /\ attachments'[a].message_id = reqs[w].human_message
                   /\ messages[reqs[w].human_message].role = "human"
       /\ \A a \in DOMAIN attachments :
            attachments[a].message_id # NoMessage =>
               attachments'[a].message_id = attachments[a].message_id]_vars

(* the text of the human message of a turn: the request's message text,     *)
(* followed by the attachment-summaries block when the turn has summaries   *)
TurnText(r) ==
    IF r.attachment_summaries = <<>> THEN r.request_message
    ELSE r.request_message \o AttachmentHeader \o Join(Newline, r.attachment_summaries)

(* the two messages of a turn, as role, content and sources *)
Exchange(r, human_content) ==
    << [role |-> "human", content |-> human_content, sources |-> <<>>],
       [role |-> "assistant", content |-> r.result.answer, sources |-> <<r.sources>>] >>

(* a signed-in request whose turn has been persisted *)
Persisted(r) == r.user # None /\ r.pc \in {"link", "usage"}

(* C11 (as amended): a completed authenticated turn extends the resolved    *)
(* chat's message list by exactly two messages, the human message (the      *)
(* request's message text, followed by the attachment-summaries block when  *)
(* the turn has attachment summaries) and then the assistant message with   *)
(* the generated answer and the derived sources; the two steps that persist *)
(* them only append rows of that chat, and no other step of the turn        *)
(* touches the messages table.                                              *)
C11_TurnAppendsExchange ==
    [][\A w \in Workers :
         LET r == reqs[w]
         IN  (r.user # None /\ reqs'[w] # r) =>
               /\ r.pc \in {"persist_human", "persist_ai"} =>
                     /\ Len(messages') = Len(messages) + 1
                     /\ SubSeq(messages', 1, Len(messages)) = messages
                     /\ messages'[Len(messages')].chat_id = r.chat.id
               /\ r.pc \in {"budget", "attach", "generate", "link", "usage"} =>
                     messages' = messages
               /\ Persisted(r) =>
                     Essence(get_chat_messages(r.chat.id)) =
                         Essence(r.messages) \o Exchange(r, TurnText(r))]_vars

C11_Witness ==
    \E w \in Workers :
        /\ reqs[w].pc = "done" /\ reqs[w].user # None /\ reqs[w].response.status = 200
        /\ reqs[w].attachment_summaries # <<>>
        /\ reqs[w].messages # <<>>
        /\ Len(get_chat_messages(reqs[w].chat.id)) = Len(reqs[w].messages) + 2

(* C11 (as stated): the human message of a completed authenticated turn     *)
(* holds the request's message text.                                        *)
C11_HumanIsRequestText ==
    \A w \in Workers :
        Persisted(reqs[w]) =>
            Essence(get_chat_messages(reqs[w].chat.id)) =
                Essence(reqs[w].messages) \o Exchange(reqs[w], reqs[w].request_message)

(* C12: an accepted anonymous request without chat id gets a freshly        *)
(* allocated chat id; its response carries that id with limit_reached=false *)
(* and the ephemeral store then holds under (session, that id) exactly two  *)
(* messages, the human message carrying the request message and the         *)
(* assistant message carrying the generated answer.                         *)
C12_AnonymousFirstTurn ==
    [][\A w \in Workers :
         LET r == reqs[w]
             q == reqs'[w]
         IN  (r.user = None /\ r.chat_id = None /\ q # r) =>
               /\ (r.pc = "resolve") =>
                     /\ q.chat.id \notin MintedIds \cup {None, BadId, UnknownId}
                     /\ get_anonymous_chat_messages(r.session, q.chat.id) = <<>>
                     /\ q.messages = <<>>
               /\ (r.pc = "save_anon") =>
                     /\ q.response.status = 200
                     /\ q.response.limit_reached = FALSE
                     /\ q.response.chat_id = r.chat.id
                     /\ q.response.answer = r.result.answer
                     /\ Essence(anon_chats'[<<r.session, r.chat.id>>]) =
                            Exchange(r, TurnText(r))
                     /\ SubSeq(TurnText(r), 1, Len(r.request_message)) = r.request_message]_vars

C12_Witness ==
    \E w \in Workers :
        LET r == reqs[w]
        IN  /\ r.pc = "done" /\ r.user = None /\ r.chat_id = None
            /\ r.response.status = 200 /\ ~r.response.limit_reached
            /\ r.response.chat_id \in MintedIds
            /\ Len(get_anonymous_chat_messages(r.session, r.response.chat_id)) = 2

(* role and content of each message of a list *)
RoleContent(msgs) ==
    [i \in 1..Len(msgs) |-> [role |-> msgs[i].role, content |-> msgs[i].content]]

(* a signed-in request with a malformed chat id and previous messages *)
SharedContinuation(r) ==
    r.user # None /\ r.chat_id = BadId /\ r.previous_messages # <<>>

(* C13: an authenticated request with a malformed chat id and non-empty     *)
(* previous_messages creates one new durable chat owned by the actor whose  *)
(* title is the first 30 characters of the first previous message followed  *)
(* by "..."; when the turn completes the chat holds the previous messages   *)
(* in their order (role and content kept), then the new human message and   *)
(* the new assistant message.                                               *)
C13_SharedChatContinuation ==
    [][\A w \in Workers :
         LET r == reqs[w]
             q == reqs'[w]
             first == r.previous_messages[1].content
         IN  (SharedContinuation(r) /\ q # r) =>
               /\ (r.pc = "resolve") =>
                     /\ Cardinality(NewChats) = 1
                     /\ \A c \in NewChats :
                           /\ ~ChatExists(c.id)
                           /\ c.user_id = r.user
                           /\ c.title = SubSeq(first, 1, Min(TitleCut, Len(first))) \o Ellipsis
                           /\ q.chat.id = c.id
               /\ (r.pc # "resolve") => chats' = chats
               /\ (r.pc = "usage") =>
                     LET stored == get_chat_messages(r.chat.id)
                         n == Len(r.previous_messages)
                     IN  /\ Len(stored) = n + 2
                         /\ RoleContent(SubSeq(stored, 1, n)) = RoleContent(r.previous_messages)
                         /\ stored[n + 1].role = "human"
                         /\ stored[n + 1].id = r.human_message
                         /\ stored[n + 2].role = "assistant"
                         /\ stored[n + 2].content = r.result.answer]_vars

C13_Witness ==
    \E w \in Workers :
        LET r == reqs[w]
        IN  /\ r.pc = "done" /\ SharedContinuation(r) /\ r.response.status = 200
            /\ Len(r.previous_messages[1].content) > TitleCut
            /\ Len(get_chat(r.chat.id).title) = TitleCut + Len(Ellipsis)
            /\ Len(get_chat_messages(r.chat.id)) = Len(r.previous_messages) + 2

(* a request of a signed-in actor, with a session header, for a chat id the *)
(* actor already owned a durable chat with when the request arrived         *)
Continuation(r) ==
    /\ r.user # None /\ r.session # None /\ r.chat_id \in ChatIds
    /\ get_chat(r.chat_id).user_id = r.user
    /\ r.pc = "resolve" \/ r.case = "transfer"

(* C14: once the actor owns the durable chat with the id (the migration has *)
(* completed), a request of that actor with the same chat id and session    *)
(* header resolves to that chat with its stored messages as history; no     *)
(* step of the request creates a chat or replays the anonymous messages:    *)
(* the only rows it adds are its own human and assistant message.           *)
C14_MigrationHappensOnce ==
    [][\A w \in Workers :
         LET r == reqs[w]
             q == reqs'[w]
         IN  (Continuation(r) /\ Busy(w) /\ q # r) =>
               /\ chats' = chats
               /\ r.pc \notin {"anon_lookup", "migrate", "replay", "reload", "title"}
               /\ r.replay = <<>>
               /\ (r.pc = "resolve") =>
                     /\ q.pc = "budget"
                     /\ q.chat.id = r.chat_id
                     /\ q.messages = get_chat_messages(r.chat_id)
                     /\ messages' = messages
               /\ (r.pc = "usage") =>
                     Len(get_chat_messages(r.chat_id)) = Len(r.messages) + 2]_vars

C14_Witness ==
    \E w \in Workers :
        LET r == reqs[w]
        IN  /\ r.pc = "done" /\ Continuation(r) /\ r.response.status = 200
            /\ get_anonymous_chat_messages(r.session, r.chat_id) # <<>>
            /\ Len(get_chat_messages(r.chat_id)) =
                   Len(get_anonymous_chat_messages(r.session, r.chat_id)) + 4

(* C15: each chat id has at most one durable chat row, and a durable chat   *)
(* keeps its row and its owner for ever: no request, a migration attempt by *)
(* another user with the same chat id included, changes or replaces it.     *)
C15_OneRowOneOwner ==
    [][/\ \A c \in chats : c \in chats'
       /\ \A c, d \in chats' : c.id = d.id => c = d]_vars

C15_Witness ==
    \E w \in Workers :
        LET r == reqs[w]
        IN  /\ r.pc = "done" /\ r.case = "migrate" /\ r.failed_at = "integrity"
            /\ ChatExists(r.chat_id)
            /\ get_chat(r.chat_id).user_id # r.user

(* an anonymous request with a well-formed chat id *)
AnonymousWithId(r) == r.user = None /\ r.session # None /\ r.chat_id \in ChatIds

(* C16: an anonymous request with a well-formed chat id uses the message    *)
(* list stored under (session, chat id) as history and answers with the     *)
(* supplied id when that list is non-empty; otherwise it gets a fresh id    *)
(* different from the supplied one and an empty history, and its messages   *)
(* are stored under the fresh id only.                                      *)
C16_AnonymousLookup ==
    [][\A w \in Workers :
         LET r == reqs[w]
             q == reqs'[w]
             stored == anon_chats[<<r.session, r.chat_id>>]
         IN  (AnonymousWithId(r) /\ q # r) =>
               /\ (r.pc = "resolve" /\ stored # <<>>) =>
                     /\ q.messages = stored
                     /\ q.chat.id = r.chat_id
                     /\ q.pc = "budget"
               /\ (r.pc = "resolve" /\ stored = <<>>) =>
                     /\ q.chat.id # r.chat_id
                     /\ q.chat.id \notin MintedIds \cup {None, BadId, UnknownId}
                     /\ anon_chats[<<r.session, q.chat.id>>] = <<>>
                     /\ q.messages = <<>>
                     /\ q.pc = "budget"
               /\ (r.pc = "attach" /\ ~NeedsSummary(r.messages)) =>
                     /\ Len(r.chat_history) = Len(r.messages)
                     /\ \A i \in 1..Len(r.messages) :
                           r.chat_history[i].content = r.messages[i].content
               /\ (r.pc = "save_anon") =>
                     /\ q.response.chat_id = r.chat.id
                     /\ \A k \in DOMAIN anon_chats :
                           k # <<r.session, r.chat.id>> => anon_chats'[k] = anon_chats[k]
                     /\ Essence(anon_chats'[<<r.session, r.chat.id>>]) =
                            Essence(r.messages) \o Exchange(r, TurnText(r))
               /\ (r.pc # "save_anon") => anon_chats' = anon_chats]_vars

C16_Witness ==
    \E w \in Workers :
        LET r == reqs[w]
        IN  /\ r.pc = "done" /\ AnonymousWithId(r) /\ r.response.status = 200
            /\ r.chat_id \in MintedIds
            /\ r.response.chat_id = r.chat_id
            /\ Len(r.messages) = 2
            /\ Len(anon_chats[<<r.session, r.chat_id>>]) = 4

(* C17: for an anonymous request with a malformed chat id the resolution    *)
(* allocates a new virtual chat id and writes to no store; the history      *)
(* handed on is the previous messages in their order, each tagged with the  *)
(* new id, and empty when there are none.                                   *)
C17_AnonymousMalformedId ==
    [][\A w \in Workers :
         LET r == reqs[w]
             q == reqs'[w]
             prev == r.previous_messages
         IN  (r.user = None /\ r.chat_id = BadId /\ r.pc = "resolve" /\ q # r) =>
               /\ q.chat.id \notin MintedIds \cup {None, BadId, UnknownId}
               /\ q.chat.id = uuid4
               /\ UNCHANGED stores
               /\ q.pc = "budget"
               /\ Len(q.messages) = Len(prev)
               /\ \A i \in 1..Len(prev) :
                     /\ q.messages[i].role = prev[i].role
                     /\ q.messages[i].content = prev[i].content
                     /\ q.messages[i].chat_id = q.chat.id]_vars

C17_Witness ==
    \E w \in Workers :
        LET r == reqs[w]
        IN  /\ r.pc = "budget" /\ r.user = None /\ r.chat_id = BadId
            /\ r.previous_messages # <<>>
            /\ Len(r.messages) = Len(r.previous_messages)
            /\ r.chat.id \in MintedIds

(* a signed-in request with a session header and a well-formed chat id of   *)
(* which the actor owns no durable chat                                     *)
ForeignId(r) ==
    /\ r.user # None /\ r.session # None /\ r.chat_id \in ChatIds
    /\ get_chat(r.chat_id).user_id # r.user

(* C18: when the actor owns no durable chat with the supplied id and the    *)
(* ephemeral store holds nothing under (session, id), the request goes on   *)
(* as a request without chat id: one fresh durable chat with a new id,      *)
(* owned by the actor and titled by the title service, an empty history, no *)
(* not-found outcome, and every existing durable chat left as it is.        *)
C18_FallBackToNewChat ==
    [][\A w \in Workers :
         LET r == reqs[w]
             q == reqs'[w]
             empty == get_anonymous_chat_messages(r.session, r.chat_id) = <<>>
         IN  (ForeignId(r) /\ q # r) =>
               /\ r.pc = "resolve" => (q.pc = "anon_lookup" /\ chats' = chats)
               /\ (r.pc = "anon_lookup" /\ empty) => (q.pc = "title" /\ chats' = chats)
               /\ (r.pc = "title") =>
                     /\ \A c \in chats : c \in chats'
                     /\ q.calls = <<[svc |-> "title", arg |-> r.request_message]>>
                     /\ q.pc # "done" =>
                           /\ Cardinality(NewChats) = 1
                           /\ \A c \in NewChats :
                                 /\ c.id # r.chat_id /\ ~ChatExists(c.id)
                                 /\ c.id \notin MintedIds
                                 /\ c.user_id = r.user
                                 /\ c.title = q.chat_title /\ q.chat_title \in Titles
                                 /\ q.chat.id = c.id
                           /\ q.messages = <<>>
                           /\ q.pc = "budget"
               /\ (empty /\ q.pc = "done") => q.response.status # 404
               /\ (empty /\ r.pc = "usage") => q.response.status = 200]_vars

C18_Witness ==
    \E w \in Workers :
        LET r == reqs[w]
        IN  /\ r.pc = "done" /\ ForeignId(r) /\ r.response.status = 200
            /\ get_anonymous_chat_messages(r.session, r.chat_id) = <<>>
            /\ ChatExists(r.chat_id)
            /\ r.response.chat_id # r.chat_id
            /\ get_chat(r.response.chat_id).user_id = r.user

(* C19: in every durable chat, whatever else is addressed to the chat at    *)
(* the same time, the assistant message a turn persists comes right after   *)
(* the human message the same turn persisted, in the chat's message order   *)
(* (created_at): nothing gets between the two.                              *)
C19_ExchangeIsContiguous ==
    [][\A w \in Workers :
         LET r == reqs[w]
             q == reqs'[w]
             before == get_chat_messages(r.chat.id)
             last == before[Len(before)]
             new == messages'[Len(messages')]
         IN  (r.pc = "persist_ai" /\ q.pc = "link") =>
               /\ before # <<>>
               /\ last.id = r.human_message /\ last.role = "human"
               /\ Len(messages') = Len(messages) + 1
               /\ new.chat_id = r.chat.id /\ new.role = "assistant"
               /\ new.created_at > last.created_at]_vars

(* the step in which a signed-in turn completes with an answer *)
Completes(r, q) ==
    /\ r.user # None /\ r.pc \notin {"idle", "done"}
    /\ q.pc = "done" /\ q.response.status = 200

(* the usage record of a turn whose user message counts as text *)
UsageRecord(r, text) ==
    [user_id |-> r.user,
     tokens_used |-> count_tokens(text) + count_tokens(r.result.answer)
                        + sum_tokens(r.chat_history)]

(* C20: the usage table changes only in the step that completes a signed-in *)
(* turn, and then by one appended record for the actor whose token count is *)
(* tokens(message text, with the attachment-summaries block when the turn   *)
(* produced summaries) + tokens(answer) + tokens(bounded history);          *)
(* anonymous turns and failed turns leave the table as it is, and no step   *)
(* changes or removes a record.                                             *)
C20_OneUsageRecordPerTurn ==
    [][/\ \A w \in Workers :
            Completes(reqs[w], reqs'[w]) =>
                token_usage' = Append(token_usage, UsageRecord(reqs[w], TurnText(reqs[w])))
       /\ token_usage' # token_usage =>
            /\ \E w \in Workers : Completes(reqs[w], reqs'[w])
            /\ Len(token_usage') = Len(token_usage) + 1
            /\ SubSeq(token_usage', 1, Len(token_usage)) = token_usage]_vars

(* a turn with history and with an attachment summary has recorded its usage, *)
(* after an anonymous turn and with no other record in the table             *)
C20_Witness ==
    \E w \in Workers :
        LET r == reqs[w]
        IN  /\ r.pc = "done" /\ r.user # None /\ r.response.status = 200
            /\ r.attachment_summaries # <<>>
            /\ r.chat_history # <<>>
            /\ Len(token_usage) = 1
            /\ token_usage[1].tokens_used > count_tokens(r.request_message)
                                              + count_tokens(r.result.answer)
                                              + sum_tokens(r.chat_history)

(* C20 (as stated): the record of a completed signed-in turn counts the     *)
(* tokens of the user message, of the answer and of the bounded history.    *)
C20_CountsUserMessage ==
    [][\A w \in Workers :
         Completes(reqs[w], reqs'[w]) =>
             token_usage' = Append(token_usage,
                                   UsageRecord(reqs[w], reqs[w].request_message))]_vars

(* the phases of a turn in the order in which process_chat goes through them *)
PhaseOrder == <<"RESOLVING", "BUDGETING", "ATTACHMENTS", "GENERATING", "PERSISTING", "DONE">>

(* the order of the state machine summary *)
StatedOrder == <<"RESOLVING", "ATTACHMENTS", "BUDGETING", "GENERATING", "PERSISTING", "DONE">>

LastPhase(r) == r.phases[Len(r.phases)]

(* the position of the first call of a service in the calls of a turn, 0 if none *)
FirstCall(r, svc) ==
    LET at == {i \in 1..Len(r.calls) : r.calls[i].svc = svc}
    IN  IF at = {} THEN 0 ELSE CHOOSE i \in at : \A j \in at : i <= j

Resolved(ids) == SelectSeq(ids, LAMBDA a : a \in DOMAIN attachments)

(* C22: whatever fails for one attachment of a turn (no record, a file that *)
(* cannot be read, a summary call that raises), attachment processing ends  *)
(* with every reference that has a record among the turn's attachments, in  *)
(* the order of the list, and the turn goes on to the answer call.          *)
C22_NoAttachmentAbortsTurn ==
    [][\A w \in Workers :
         LET r == reqs[w]
             q == reqs'[w]
         IN  (r.pc = "attach" /\ q # r) =>
               /\ q.pc = "generate"
               /\ q.attachments_for_message = Resolved(r.attachments)]_vars

(* a turn that has come back from the answer call and was answered *)
Answered(r) == r.pc = "done" /\ r.response.status = 200 /\ ~r.response.limit_reached

(* C23: the sources of a response have one entry per context document of    *)
(* the answer call, in the order of the documents: the source of the        *)
(* document's metadata, or "Unknown" when the metadata has no source.       *)
C23_OneSourcePerDocument ==
    \A w \in Workers :
        LET r == reqs[w]
            docs == r.result.context
            out == r.response.sources
        IN  Answered(r) =>
              /\ Len(out) = Len(docs)
              /\ \A i \in 1..Len(docs) :
                    out[i].url = IF docs[i].source = <<>> THEN "Unknown" ELSE docs[i].source[1]

(* an answered turn whose context has a document with a source, then one without *)
C23_Witness ==
    \E w \in Workers :
        LET r == reqs[w]
        IN  /\ Answered(r) /\ r.result.context = TwoDocs
            /\ r.response.sources = <<[url |-> "url1"], [url |-> "Unknown"]>>

(* the content blocks handed to the answer call, of every role entry *)
ContentBlocks(entries) == Flatten([i \in 1..Len(entries) |-> entries[i].blocks])

IsPrefix(p, s) == Len(p) <= Len(s) /\ SubSeq(s, 1, Len(p)) = p

(* the block of attachment a is among the blocks: by its data for an image  *)
(* or an audio file, by its file name for a document                        *)
HasBlock(blocks, a) ==
    LET att == attachments[a]
        kind == AttachmentKind(att.file_type)
    IN  \E i \in 1..Len(blocks) :
          LET b == blocks[i]
          IN  IF kind = "image"
                  THEN b.type = "image_url" /\ b.file_type = att.file_type /\ b.data = att.file_path
              ELSE IF kind = "audio"
                  THEN b.type = "media" /\ b.file_type = att.file_type /\ b.data = att.file_path
              ELSE b.type = "text" /\ IsPrefix(<<"'">> \o att.file_name \o <<"'", ":">>, b.data)

(* C24: the attachments value of the answer call holds, in entries of role  *)
(* human, the content block of every resolved attachment of the turn: a     *)
(* text block naming the file for a document, whatever its extracted text,  *)
(* an image block for an image, a media block for an audio file.            *)
C24_EveryAttachmentHasBlock ==
    \A w \in Workers :
        LET r == reqs[w]
        IN  (r.pc \in {"generate", "persist_human", "persist_ai", "link", "usage", "save_anon"}) =>
              /\ \A i \in 1..Len(r.attachment_content) : r.attachment_content[i].role = "human"
              /\ \A a \in Range(r.attachments_for_message) :
                    HasBlock(ContentBlocks(r.attachment_content), a)

(* an anonymous request that has passed the ceiling check *)
Accepted(r) ==
    /\ r.user = None /\ r.session # None
    /\ r.pc \notin {"idle", "get_count", "check_limit"}
    /\ r.case # "limit"

(* C25: an accepted anonymous request leaves its session's counter exactly  *)
(* one above the value it arrived at, also when a later step of the request *)
(* (summary, attachment, answer) fails: the only step of the request that   *)
(* touches the counter is the increment that accepts it.                    *)
C25_IncrementKeptOnFailure ==
    [][\A w \in Workers :
         LET r == reqs[w]
             q == reqs'[w]
         IN  /\ Accepted(q) => counter'[q.session] = q.arrived_count + 1
             /\ (Accepted(r) /\ q # r) => counter' = counter
             /\ (Accepted(q) /\ ~Accepted(r)) =>
                    r.pc = "check_limit" /\ counter' = [counter EXCEPT ![r.session] = @ + 1]]_vars

(* the second request of a session was accepted and has failed in the       *)
(* summary call or in attachment processing                                 *)
C25_Witness ==
    \E w \in Workers :
        LET r == reqs[w]
        IN  /\ Accepted(r) /\ r.pc = "done" /\ r.response.status = 500
            /\ r.failed_at \in {"summarize", "attach"}
            /\ counter[r.session] = 2

(* the rows of a list are in the order of the add_message calls that made them *)
InCreationOrder(rows) == \A i, j \in 1..Len(rows) : i < j => rows[i].id < rows[j].id

(* the ids of the chats that have messages *)
ChatsWithMessages == {messages[i].chat_id : i \in 1..Len(messages)}

(* C26: no step changes or removes a durable message, and every read of a   *)
(* chat's messages, through get_chat_messages and through the chat's        *)
(* messages relationship, returns them in the order of the add_message      *)
(* calls that created them.                                                 *)
C26_ImmutableAndOrdered ==
    [][/\ Len(messages') >= Len(messages)
       /\ \A i \in 1..Len(messages) : messages'[i] = messages[i]
       /\ \A c \in ChatsWithMessages :
             /\ InCreationOrder(get_chat_messages(c))
             /\ \A read \in chat_messages(c) : InCreationOrder(read)]_vars

(* C27: the public lookup answers with a chat exactly when the chat of that *)
(* id is marked shared; the share endpoint succeeds, and marks the chat,    *)
(* only for its owner, and for anyone else answers 404 and changes no chat; *)
(* and no step ever takes the shared mark off a chat.                       *)
Shared(chat_id) == \E c \in chats : c.id = chat_id /\ c.is_shared

OwnedBy(chat_id, u) == \E c \in chats : c.id = chat_id /\ c.user_id = u

NewRows == SubSeq(messages', Len(messages) + 1, Len(messages'))

CopiedInOrder(rows, chat_id, stored) ==
    /\ Len(rows) = Len(stored)
    /\ \A i \in 1..Len(rows) :
          /\ rows[i].chat_id = chat_id
          /\ rows[i].role = stored[i].role
          /\ rows[i].content = stored[i].content
          /\ rows[i].sources = stored[i].sources
    /\ \A i, j \in 1..Len(rows) : i < j => rows[i].created_at < rows[j].created_at

C28_WitnessRefused ==
    /\ api.op = "share_anon"
    /\ api.status \in {400, 404}

(* C29: a chat request of a signed-in user never goes through the counter   *)
(* read or the ceiling test, is never answered with limit_reached, and no   *)
(* step of it changes any session counter, whatever the counter of the      *)
(* session named in its header.                                             *)
C29_SignedInNeverCounted ==
    [][ \A w \in Workers :
          reqs'[w].user # None =>
              /\ counter' = counter
              /\ reqs'[w].pc \notin {"get_count", "check_limit"}
              /\ reqs'[w].message_count = IdleReq.message_count
              /\ "counter" \notin reqs'[w].writes
              /\ ~reqs'[w].response.limit_reached
              /\ reqs'[w].case # "limit"
      ]_vars

(* a signed-in user has been answered on a request that carried the header  *)
(* of a session whose counter stands at the ceiling                         *)
C29_Witness ==
    \E w \in Workers :
        LET r == reqs[w]
        IN  /\ r.user # None
            /\ r.session # None
            /\ counter[r.session] >= AnonLimit
            /\ r.pc = "done"
            /\ r.response.status = 200
            /\ r.response.answer # LimitText

(* C30: /verify-email answers 200 only for a token that is the stored token *)
(* of a user and whose expiry is later than the clock; that user is then    *)
(* verified and has neither token nor expiry, and nobody else changes; a    *)
(* token that has verified a user is refused, as invalid or expired, by     *)
(* every later request that presents it.                                    *)
UsedTokens == {users[e].mailed : e \in {x \in Emails : users[x].is_verified}}

C30_VerificationTokenOnce ==
    [][ (api' # api /\ api'.op = "verify") =>
          /\ api'.status = 200 =>
                \E e \in Emails :
                    /\ api'.user = e
                    /\ users[e].verification_token = api'.arg
                    /\ users[e].verification_token_expiry > now
                    /\ users'[e].is_verified
                    /\ users'[e].verification_token = None
                    /\ users'[e].verification_token_expiry = None
                    /\ \A x \in Emails \ {e} : users'[x] = users[x]
          /\ api'.status # 200 => users' = users
          /\ api'.arg \in UsedTokens =>
                /\ api'.status # 200
                /\ api'.status # 429 => api'.status = 400
      ]_vars

(* the token that verified a user is presented again within its 24 hours    *)
(* and is answered 400                                                      *)
C30_Witness ==
    /\ api.op = "verify"
    /\ api.status = 400
    /\ \E e \in Emails :
          /\ users[e].is_verified
          /\ users[e].mailed = api.arg
          /\ users[e].verification_token = None
    /\ now < VerificationHours

(* a token presented at the hour of its expiry is answered 400 and the user *)
(* stays unverified                                                         *)
C30_WitnessExpired ==
    /\ api.op = "verify"
    /\ api.status = 400
    /\ \E e \in Emails :
          /\ users[e].verification_token = api.arg
          /\ users[e].verification_token_expiry = now
          /\ ~users[e].is_verified

(* C31: every increment of a counter and every save of a message list puts  *)
(* the expiry of the written key 24 hours after that write, a later write   *)
(* moving it again; a key that holds a value always has an expiry still to  *)
(* come; and a counter or list goes back to empty only once the 24 hours    *)
(* since its last write are over.                                           *)
C31_SlidingExpiry ==
    [][ /\ \A s \in Sessions :
              /\ counter'[s] > counter[s] => ttl'.count[s] = now' + AnonKeyHours
              /\ counter'[s] > 0 => ttl'.count[s] # NoExpiry /\ ttl'.count[s] > now'
              /\ (counter[s] > 0 /\ counter'[s] = 0) => now' >= ttl.count[s]
              /\ (counter[s] > 0 /\ ttl.count[s] <= now') => counter'[s] = 0
        /\ \A k \in Sessions \X ChatIds :
              /\ (anon_chats'[k] # anon_chats[k] /\ anon_chats'[k] # <<>>) =>
                    ttl'.chat[k] = now' + AnonKeyHours
              /\ anon_chats'[k] # <<>> => ttl'.chat[k] # NoExpiry /\ ttl'.chat[k] > now'
              /\ (anon_chats[k] # <<>> /\ anon_chats'[k] = <<>>) => now' >= ttl.chat[k]
      ]_vars

(* five requests were accepted in the first hour and the counter reads 0    *)
(* again 24 hours later                                                     *)
C31_Witness ==
    \E s \in Sessions :
        /\ arrivals[s] = AnonLimit
        /\ counter[s] = 0
        /\ now = 1 + AnonKeyHours

(* a counter whose expiry was moved by a later accepted request *)
C31_WitnessSliding ==
    \E s \in Sessions :
        /\ counter[s] >= 2
        /\ ttl.count[s] > 1 + AnonKeyHours

(* C32: the durable chat made by a migration is titled with the first 30    *)
(* characters of the first human message of the anonymous list, wherever    *)
(* in the list it stands, followed by "...", and with "Transferred from     *)
(* anonymous chat" only when the list holds no human message.               *)
FirstHuman(msgs) ==
    msgs[CHOOSE i \in 1..Len(msgs) :
            /\ msgs[i].role = "human"
            /\ \A j \in 1..(i - 1) : msgs[j].role # "human"]

C32_TitleFromFirstHuman ==
    \A w \in Workers :
        LET r == reqs[w]
        IN  (r.case = "migrate" /\ r.chat_id \in r.created) =>
              get_chat(r.chat_id).title =
                  IF \E i \in 1..Len(r.anon_messages) : r.anon_messages[i].role = "human"
                      THEN Take(FirstHuman(r.anon_messages).content, TitleCut) \o Ellipsis
                      ELSE TransferTitle

(* C33: no step of a chat request of an anonymous actor, whatever its chat  *)
(* id, previous messages or attachments, changes the chats, the messages,   *)
(* the attachments or the usage records; it changes no counter but that of  *)
(* its session and no message list but the one of its session and chat id.  *)
AnonymousStep(w) ==
    /\ reqs'[w] # reqs[w]
    /\ \/ reqs[w].pc = "idle" /\ reqs'[w].user = None
       \/ reqs[w].pc # "idle" /\ reqs[w].user = None

C33_AnonymousWritesOnlyEphemeral ==
    [][ \A w \in Workers :
          AnonymousStep(w) =>
              /\ chats' = chats
              /\ messages' = messages
              /\ attachments' = attachments
              /\ token_usage' = token_usage
              /\ \A s \in Sessions : counter'[s] # counter[s] => s = reqs[w].session
              /\ \A k \in Sessions \X ChatIds :
                    anon_chats'[k] # anon_chats[k] => k = <<reqs[w].session, reqs[w].chat.id>>
      ]_vars

(* an anonymous turn that referred to the uploaded document has been        *)
(* answered while a user's chat with messages and a usage record exists     *)
C33_Witness ==
    \E w \in Workers :
        LET r == reqs[w]
        IN  /\ r.user = None
            /\ r.pc = "done"
            /\ r.response.status = 200
            /\ r.attachments_for_message # <<>>
            /\ r.writes = {"counter", "anon_chat"}
            /\ chats # {}
            /\ messages # <<>>
            /\ token_usage # <<>>

(* C34: every step of a signed-in user's chat request that reads a history  *)
(* or appends messages does so on a durable chat owned by that user, and    *)
(* the read and append endpoints of the chat API answer 200, and append,    *)
(* only for the owner of the chat; for anyone else they answer 404 and      *)
(* change no message.                                                       *)
Owns(u, chat_id, table) == \E c \in table : c.id = chat_id /\ c.user_id = u

AppendedRows == SubSeq(messages', Len(messages) + 1, Len(messages'))

C34_OnlyOwnChats ==
    [][ /\ \A w \in Workers :
              LET r == reqs[w]
                  q == reqs'[w]
              IN  (q # r /\ r.pc # "idle" /\ r.user # None) =>
                    /\ SubSeq(messages', 1, Len(messages)) = messages
                    /\ \A i \in 1..Len(AppendedRows) :
                          Owns(r.user, AppendedRows[i].chat_id, chats')
                    /\ \A i \in 1..Len(q.messages) :
                          q.messages[i].shape = "orm" =>
                              Owns(r.user, q.messages[i].chat_id, chats')
                    /\ q.pc \in {"budget", "attach", "generate", "persist_human",
                                 "persist_ai", "link", "usage"} =>
                          Owns(r.user, q.chat.id, chats')
        /\ (api' # api /\ api'.op \in {"create_message", "read_chat", "read_chat_messages"}) =>
              /\ api'.status = 200 <=> Owns(api'.user, api'.arg, chats)
              /\ api'.status \in {200, 404}
              /\ api'.status = 404 => messages' = messages
              /\ api'.op # "create_message" => messages' = messages
              /\ (api'.status = 200 /\ api'.op = "create_message") =>
                    /\ Len(AppendedRows) = 1
                    /\ AppendedRows[1].chat_id = api'.arg
      ]_vars

(* a user's chat request on another user's chat that holds messages has     *)
(* been answered 404                                                        *)
C34_Witness ==
    \E w \in Workers :
        LET r == reqs[w]
        IN  /\ r.pc = "done"
            /\ r.user # None
            /\ r.response.status # 200
            /\ \E c \in chats : c.id = r.chat_id /\ c.user_id \notin {r.user, None}
            /\ \E i \in 1..Len(messages) : messages[i].chat_id = r.chat_id

(* the append endpoint has answered 404 to a user about another user's chat *)
C34_WitnessApi ==
    /\ api.op = "create_message"
    /\ api.status = 404
    /\ \E c \in chats : c.id = api.arg /\ c.user_id \notin {api.user, None}

(* C35: whenever an accepted anonymous turn has completed, the message list *)
(* under its session and chat id holds its human message followed by its    *)
(* assistant message, and goes on holding them while other turns on the     *)
(* same key complete.                                                       *)
Adjacent(list, first, second) ==
    \E i \in 1..(Len(list) - 1) : list[i] = first /\ list[i + 1] = second

C35_NoExchangeLost ==
    /\ \A w \in Workers :
          LET r == reqs[w]
              saved == NewMessages(r)
          IN  (r.pc = "done" /\ r.user = None /\ r.response.status = 200
               /\ ~r.response.limit_reached) =>
                  Adjacent(anon_chats[<<r.session, r.chat.id>>],
                           saved[Len(saved) - 1], saved[Len(saved)])
    /\ \A w, v \in Workers :
          LET r == reqs[w]
              q == reqs[v]
          IN  (w # v /\ r.pc = "done" /\ q.pc = "done" /\ r.user = None /\ q.user = None
               /\ r.response.status = 200 /\ q.response.status = 200
               /\ ~r.response.limit_reached /\ ~q.response.limit_reached
               /\ r.session = q.session /\ r.chat.id = q.chat.id) =>
                  Len(anon_chats[<<r.session, r.chat.id>>]) >=
                      Min(Len(r.messages), Len(q.messages)) + 4

(* C36: an anonymous turn that is answered leaves a record under (session,  *)
(* answered chat id); a later accepted request of the session that supplies *)
(* that id while the record has not expired resolves to the same id with a  *)
(* history equal to the stored list; and when it completes the stored list  *)
(* is that history followed by exactly its human and its assistant message, *)
(* the earlier messages unchanged and in the same order.                    *)
C36_ContinuationExtendsStoredList ==
    [][ \A w \in Workers :
          LET r == reqs[w]
              q == reqs'[w]
              key == <<r.session, r.chat_id>>
          IN  /\ (r.pc = "resolve" /\ q.pc # "resolve" /\ r.user = None
                  /\ r.chat_id \in ChatIds /\ ttl.chat[key] # NoExpiry
                  /\ ttl.chat[key] > now) =>
                    /\ q.chat.id = r.chat_id
                    /\ q.messages = anon_chats[key]
                    /\ q.messages # <<>>
              /\ (r.pc = "save_anon" /\ q.pc = "done") =>
                    LET list == anon_chats'[<<r.session, r.chat.id>>]
                        n == Len(r.messages)
                    IN  /\ q.response.status = 200
                        /\ q.response.chat_id = r.chat.id
                        /\ Len(list) = n + 2
                        /\ SubSeq(list, 1, n) = r.messages
                        /\ list[n + 1].role = "human"
                        /\ list[n + 1].content = r.message
                        /\ list[n + 2].role = "assistant"
                        /\ list[n + 2].content = r.result.answer
                        /\ ttl'.chat[<<r.session, r.chat.id>>] > now'
      ]_vars

(* a continued anonymous turn has completed, half a day after the turn that *)
(* stored its history                                                       *)
C36_Witness ==
    \E w \in Workers :
        LET r == reqs[w]
        IN  /\ r.pc = "done" /\ r.user = None /\ r.response.status = 200
            /\ r.chat_id \in ChatIds /\ r.chat.id = r.chat_id
            /\ Len(r.messages) = 2
            /\ Len(anon_chats[<<r.session, r.chat_id>>]) = 4
            /\ now > 1

----------------------------------------------------------------------------
(* Subscriptions: services/subscription.py, api/subscriptions.py.  In the   *)
(* specification of this section the clock `now` counts days.               *)

MaxSubReq == 3       \* subscription calls and gateway events in one behaviour
MaxSubClock == 61    \* the day at which the clock of this specification stops
MaxMonths == 2       \* largest duration_months an activation asks for

Events ==
    {"subscription.create", "charge.success", "invoice.create", "invoice.payment_failed",
     "invoice.update", "subscription.not_renew", "subscription.disable"}
EventStatuses == {"success", "failed", "complete", "cancelled"}
(* what the gateway does during a cancellation: it disables the active      *)
(* subscription, answers the disable call with an error status, lists no    *)
(* active subscription, or cannot be reached (requests raises)              *)
Gateway == {"disabled", "refused", "none_active", "unreachable"}

(* db.commit(): the UPDATE of a users row carries the mapped columns only   *)
commit(row, user) ==
    [c \in DOMAIN row |-> IF c \in MappedColumns THEN user[c] ELSE row[c]]

SubCall(op, status, user, event, gateway, reason, result) ==
    [op |-> op, seq |-> subs.last.seq + 1, status |-> status, user |-> user,
     event |-> event, gateway |-> gateway, reason |-> reason, result |-> result]

(* is_user_premium *)
is_user_premium(u) ==
    LET user == subs.rows[u]
    IN  /\ user.subscription_plan = "premium"
        /\ user.subscription_expiry_date # NoDate
        /\ ~(user.subscription_expiry_date < now)

(* activate_premium_subscription; verified is the answer of verify_payment  *)
activate_premium_subscription(u, payment_reference, duration_months, auto_renew, verified) ==
    /\ subs.last.seq < MaxSubReq
    /\ LET user == [subs.rows[u] EXCEPT
                       !.subscription_plan = "premium",
                       !.subscription_start_date = now,
                       !.subscription_expiry_date = now + PeriodDays * duration_months,
                       !.subscription_auto_renew = auto_renew,
                       !.payment_reference = payment_reference]
       IN  IF ~verified
               THEN subs' = [subs EXCEPT !.last =
                       SubCall("activate_premium_subscription", 400, u, None, None, None,
                               subs.rows[u])]
               ELSE subs' = [subs EXCEPT
                       !.rows[u] = commit(@, user),
                       !.last = SubCall("activate_premium_subscription", 200, u, None, None,
                                        None, user)]
    /\ UNCHANGED <<stores, now, next_uuid, reqs, started, arrivals, api, users, ttl>>

(* cancel_subscription *)
cancel_subscription(u, reason, gateway) ==
    /\ subs.last.seq < MaxSubReq
    /\ LET row == subs.rows[u]
           user == [row EXCEPT !.cancellation_date = now,
                               !.cancellation_reason = reason,
                               !.subscription_auto_renew = FALSE]
           existing_record ==
               \E h \in subs.history : h.payment_reference = row.payment_reference
           history_record ==
               [user_id |-> u, payment_reference |-> row.payment_reference,
                payment_date |-> IF row.subscription_start_date # NoDate
                                     THEN row.subscription_start_date ELSE now,
                event_type |-> "subscription.disable",
                plan_type |-> row.subscription_plan,
                created_at |-> now, cancellation_reason |-> reason]
       IN  IF gateway = "unreachable"
               THEN subs' = [subs EXCEPT !.last =
                       SubCall("cancel_subscription", 500, u, None, gateway, reason, row)]
               ELSE subs' = [subs EXCEPT
                       !.rows[u] = commit(@, user),
                       !.history = IF row.payment_reference # None /\ ~existing_record
                                       THEN @ \cup {history_record} ELSE @,
                       !.last = SubCall("cancel_subscription", 200, u, None, gateway,
                                        reason, user)]
    /\ UNCHANGED <<stores, now, next_uuid, reqs, started, arrivals, api, users, ttl>>

(* POST /cancel *)
cancel_user_subscription(u, gateway) == cancel_subscription(u, None, gateway)

(* process_subscription_event; customer is the user with the event's email, *)
(* None when the event names no email or no user has it                     *)
process_subscription_event(event_type, customer, status) ==
    /\ subs.last.seq < MaxSubReq
    /\ LET row == IF customer = None THEN NoSubscription ELSE subs.rows[customer]
           active == row.subscription_expiry_date # NoDate
                     /\ row.subscription_expiry_date > now
           expired == row.subscription_expiry_date = NoDate
                      \/ row.subscription_expiry_date < now
           extended == IF active
                          THEN [row EXCEPT !.subscription_expiry_date = @ + PeriodDays]
                          ELSE [row EXCEPT !.subscription_start_date = now,
                                           !.subscription_expiry_date = now + PeriodDays]
           user ==
               CASE event_type = "subscription.create" ->
                        [row EXCEPT !.subscription_plan = "premium",
                                    !.subscription_start_date = now,
                                    !.subscription_expiry_date = now + PeriodDays,
                                    !.subscription_auto_renew = TRUE]
                 [] event_type = "charge.success" ->
                        [extended EXCEPT !.subscription_plan = "premium"]
                 [] event_type = "invoice.update" /\ status = "success" -> extended
                 [] event_type = "subscription.not_renew" ->
                        [row EXCEPT !.subscription_auto_renew = FALSE]
                 [] event_type = "subscription.disable" ->
                        [row EXCEPT !.subscription_auto_renew = FALSE,
                                    !.subscription_plan =
                                        IF status = "complete" /\ expired THEN "free" ELSE @]
                 [] OTHER -> row
       IN  IF customer = None
               THEN subs' = [subs EXCEPT !.last =
                       SubCall("process_subscription_event", 200, None, event_type, None,
                               None, NoSubscription)]
               ELSE subs' = [subs EXCEPT
                       !.rows[customer] = commit(@, user),
                       !.last = SubCall("process_subscription_event", 200, customer,
                                        event_type, None, None, user)]
    /\ UNCHANGED <<stores, now, next_uuid, reqs, started, arrivals, api, users, ttl>>

(* d days pass *)
PassDays(d) ==
    /\ now + d <= MaxSubClock
    /\ now' = now + d
    /\ UNCHANGED <<stores, next_uuid, reqs, started, arrivals, api, users, ttl, subs>>

(* the user whose subscription the calls and events of NextSub address *)
Subscribers == {"u1"}

NextSub ==
    \/ \E u \in Subscribers, p \in PaymentRefs, m \in 1..MaxMonths, a, v \in BOOLEAN :
          activate_premium_subscription(u, p, m, a, v)
    \/ \E u \in Subscribers, r \in {None, Reason}, g \in Gateway : cancel_subscription(u, r, g)
    \/ \E u \in Subscribers, g \in Gateway : cancel_user_subscription(u, g)
    \/ \E e \in Events, c \in Subscribers \cup {None}, s \in EventStatuses :
          process_subscription_event(e, c, s)
    \/ \E d \in {PeriodDays \div 2} : PassDays(d)

SpecSub == Init /\ [][NextSub]_vars

(* C37: a call of cancel_subscription leaves the user's plan and expiry     *)
(* date as they were, sets auto-renew to false and records the date and the *)
(* reason of the cancellation in the user's row, whatever the payment       *)
(* gateway did with the request to disable the subscription.                *)
C37_CancelKeepsPlanRecordsCancellation ==
    [][ (subs'.last.seq # subs.last.seq /\ subs'.last.op = "cancel_subscription") =>
            LET u == subs'.last.user
                old == subs.rows[u]
                new == subs'.rows[u]
            IN  /\ new.subscription_plan = old.subscription_plan
                /\ new.subscription_expiry_date = old.subscription_expiry_date
                /\ new.subscription_auto_renew = FALSE
                /\ new.cancellation_date = now
                /\ new.cancellation_reason = subs'.last.reason
      ]_vars

(* C38: no activation and no gateway event moves a user's expiry date back, *)
(* and none turns a premium plan whose expiry date lies ahead into free.    *)
C38_ExpiryNeverMovesBack ==
    [][ \A u \in Users :
            LET old == subs.rows[u]
                new == subs'.rows[u]
            IN  /\ new.subscription_expiry_date >= old.subscription_expiry_date
                /\ (old.subscription_plan = "premium"
                    /\ old.subscription_expiry_date > now) =>
                        new.subscription_plan = "premium"
      ]_vars

----------------------------------------------------------------------------
(* Clearing a session: services/anonymous_chat.py.  The keys are spelled    *)
(* out character by character, as KEYS matches them.                        *)

MaxClearReq == 4     \* calls of the anonymous-chat service in one behaviour

ClearSessions == {<<"a">>, <<"a", "b">>, <<"b">>}
ClearChatIds == {<<"a", "1">>, <<"c", "1">>}
StoredList == << DictMessage(None, "human", Hello, <<>>, <<>>) >>

KeyPrefix == <<"a", "n", "o", "n", "y", "m", "o", "u", "s", ":">>
(* f"anonymous:count:{session_id}" *)
CountKey(session) == KeyPrefix \o <<"c", "o", "u", "n", "t", ":">> \o session
(* f"anonymous:chat:{session_id}:{chat_id}" *)
ChatKey(session, chat_id) ==
    KeyPrefix \o <<"c", "h", "a", "t", ":">> \o session \o <<":">> \o chat_id
(* f"anonymous:*:{session_id}*" *)
ClearPattern(session) == KeyPrefix \o <<"*", ":">> \o session \o <<"*">>

(* Redis glob matching: * is any run of characters, ? any one character *)
RECURSIVE GlobMatch(_, _)
GlobMatch(pattern, key) ==
    IF pattern = <<>> THEN key = <<>>
    ELSE IF Head(pattern) = "*"
        THEN GlobMatch(Tail(pattern), key)
             \/ (key # <<>> /\ GlobMatch(pattern, Tail(key)))
    ELSE /\ key # <<>>
         /\ (Head(pattern) = "?" \/ Head(pattern) = Head(key))
         /\ GlobMatch(Tail(pattern), Tail(key))

(* clear_anonymous_session: KEYS pattern, then DEL of every key found *)
clear_anonymous_session(session) ==
    LET found(key) == GlobMatch(ClearPattern(session), key)
    IN  /\ counter' = [s \in DOMAIN counter |->
                          IF found(CountKey(s)) THEN 0 ELSE counter[s]]
        /\ anon_chats' = [k \in DOMAIN anon_chats |->
                             IF found(ChatKey(k[1], k[2])) THEN <<>> ELSE anon_chats[k]]
        /\ ttl' = [count |-> [s \in DOMAIN counter |->
                                 IF found(CountKey(s)) THEN NoExpiry ELSE ttl.count[s]],
                   chat |-> [k \in DOMAIN anon_chats |->
                                IF found(ChatKey(k[1], k[2])) THEN NoExpiry
                                ELSE ttl.chat[k]]]

(* one call of a function of the service *)
ServiceCall(op, session, chat_id) ==
    /\ started < MaxClearReq
    /\ started' = started + 1
    /\ api' = Answer(op, started + 1, 200, None, session, chat_id, None)
    /\ CASE op = "increment_anonymous_message_count" ->
                /\ increment_anonymous_message_count(session)
                /\ UNCHANGED anon_chats
         [] op = "save_anonymous_chat_messages" ->
                /\ save_anonymous_chat_messages(session, chat_id, StoredList)
                /\ UNCHANGED counter
         [] OTHER -> clear_anonymous_session(session)
    /\ UNCHANGED <<chats, messages, attachments, files, token_usage, now, next_uuid, reqs,
                   arrivals, users, subs>>

InitClear ==
    /\ counter = [s \in ClearSessions |-> 0]
    /\ anon_chats = [k \in ClearSessions \X ClearChatIds |-> <<>>]
    /\ ttl = [count |-> [s \in ClearSessions |-> NoExpiry],
              chat |-> [k \in ClearSessions \X ClearChatIds |-> NoExpiry]]
    /\ arrivals = [s \in ClearSessions |-> 0]
    /\ api = [NoCall EXCEPT !.session = <<>>, !.arg = <<>>]
    /\ chats = {} /\ messages = <<>> /\ attachments = <<>> /\ files = {}
    /\ token_usage = <<>> /\ now = 1 /\ next_uuid = 0 /\ started = 0
    /\ users = [e \in Emails |-> NoUser]
    /\ subs = NoSubscriptions
    /\ reqs = [w \in Workers |-> IdleReq]

NextClear ==
    \/ \E s \in ClearSessions : ServiceCall("increment_anonymous_message_count", s, <<>>)
    \/ \E s \in ClearSessions, c \in ClearChatIds :
          ServiceCall("save_anonymous_chat_messages", s, c)
    \/ \E s \in ClearSessions : ServiceCall("clear_anonymous_session", s, <<>>)

SpecClear == InitClear /\ [][NextClear]_vars

(* C39: a call clear_anonymous_session(s) leaves session s without counter  *)
(* and without chat records, and leaves the counter and the chat records of *)
(* every other session as they were, also when one of the two session ids   *)
(* is a prefix of the other.                                                *)
C39_ClearOnlyOwnSession ==
    [][ (started' # started /\ api'.op = "clear_anonymous_session") =>
            \A t \in ClearSessions :
                IF t = api'.session
                    THEN /\ counter'[t] = 0
                         /\ \A c \in ClearChatIds : anon_chats'[<<t, c>>] = <<>>
                    ELSE /\ counter'[t] = counter[t]
                         /\ \A c \in ClearChatIds :
                                anon_chats'[<<t, c>>] = anon_chats[<<t, c>>]
      ]_vars

====
